---- MODULE Spec2Model ----
(***************************************************************************)
(* Model of walterfetch's request-control middleware: the token-bucket     *)
(* RateLimiter, the CircuitBreaker and the RetryHandler                    *)
(* (src/middleware/rate_limiter.py), the LRUCache and the TieredCache      *)
(* (src/middleware/cache.py) and the ProxyManager with its health-check    *)
(* loop (src/middleware/proxy_manager.py).                                 *)
(*                                                                         *)
(* Time is discrete (ticks).  A bucket's rate is RateNum/RateDen tokens    *)
(* per tick and token counts are kept in units of 1/RateDen token, so the  *)
(* float arithmetic of the source is exact here.                           *)
(***************************************************************************)
EXTENDS Integers, Sequences, FiniteSets, TLC

(* ------------------------------ bounds -------------------------------- *)
NumProcs == 2       \* concurrent callers of one RateLimiter
Burst == 2          \* RateLimiter(burst=...)
RateNum == 1        \* RateLimiter(requests_per_second = RateNum/RateDen per tick)
RateDen == 2

Procs == 1..NumProcs
NoProc == 0
\* what callers ask for: one token, the whole burst, more than the burst
Requests == {1, Burst, Burst + 1}

Min(a, b) == IF a <= b THEN a ELSE b
Max(a, b) == IF a >= b THEN a ELSE b
CeilDiv(a, b) == (a + b - 1) \div b
SeqRange(q) == {q[i] : i \in 1..Len(q)}

(* ============================== state ================================= *)
VARIABLES
  rl_tokens,    \* self.tokens, in units of 1/RateDen token
  rl_elapsed,   \* time.time() - self.last_update, in ticks (saturated)
  rl_owner,     \* holder of self._lock, or NoProc
  rl_waiters,   \* FIFO of callers suspended in self._lock.acquire()
  rl_pc,        \* per caller: "idle", "lock", "run", "sleep"
  rl_req,       \* per caller: the argument tokens of its acquire (0: no call)
  rl_sleep,     \* per caller: ticks left of its asyncio.sleep(wait_time)
  rl_excess,    \* history: the largest, over the time windows that end now, of
                \* (permits granted in the window - rate * the window's length),
                \* in units of 1/RateDen token
  rl_slept      \* history: the last caller that took the lock has slept

rl_vars == <<rl_tokens, rl_elapsed, rl_owner, rl_waiters, rl_pc, rl_req,
             rl_sleep, rl_excess, rl_slept>>

VARIABLES
  cb_state,          \* self._state
  cb_failure_count,  \* self._failure_count
  cb_success_count,  \* self._success_count
  cb_since,          \* time.time() - self._last_failure_time in ticks
                     \* (saturated at RecoveryTimeout), or NoTime
  cb_pc,             \* per caller: "idle", or "running" (inside await func(...))
  cb_ev,             \* history: the last step, [op, pre]: what happened and the
                     \* state of the breaker before it
  cb_streak,         \* history: failures recorded since the last recorded success
  cb_peak,           \* history: the longest such run so far (up to the threshold)
  cb_episode         \* history: successes recorded in HalfOpen since the breaker
                     \* last entered HalfOpen (up to SuccessesToClose)

cb_vars == <<cb_state, cb_failure_count, cb_success_count, cb_since, cb_pc,
             cb_ev, cb_streak, cb_peak, cb_episode>>

VARIABLES
  rt_max_retries,     \* self.config.max_retries
  rt_jitter,          \* self.config.jitter
  rt_pc,              \* "new", "idle", "invoke", "sleep", "returned", "raised"
  rt_attempt,         \* the loop variable attempt
  rt_last_exception,  \* last_exception: <<kind, code, attempt that raised it>>
  rt_result,          \* what execute returned (an outcome) or raised (an exception)
  rt_outcomes,        \* history: the outcomes of the invocations of this execute
  rt_delays           \* history: the delays this execute has slept, in 1/10 units

rt_vars == <<rt_max_retries, rt_jitter, rt_pc, rt_attempt, rt_last_exception,
             rt_result, rt_outcomes, rt_delays>>

VARIABLES
  lc_max_size,     \* self.max_size
  lc_default_ttl,  \* self.default_ttl
  lc_cache,        \* self._cache: the entries in the OrderedDict's order, the
                   \* first being the next one popitem(last=False) removes;
                   \* an entry is [key, value, ttl, age, hits] with age =
                   \* time.time() - created_at in ticks (saturated)
  lc_ev,           \* history: the last operation, [op, key, ret, evicted]:
                   \* its name, its key, what it returned and the keys it
                   \* evicted
  lc_touch         \* history: the stored keys in the order of their last
                   \* get-hit or set, the oldest first

lc_vars == <<lc_max_size, lc_default_ttl, lc_cache, lc_ev, lc_touch>>

VARIABLES
  tc_l2,   \* self.l2 and the store behind it: [present, data], data being the
           \* <<key, value>> pairs the store holds
  tc_l3,   \* self.l3 and the store behind it, likewise
  tc_ev    \* history: the last operation, [op, key, value, ret, trace]: its
           \* name, its arguments, what it returned and the tier accesses
           \* it made, in their order

tc_vars == <<tc_l2, tc_l3, tc_ev>>

VARIABLES
  pm_pool,          \* the number of entries of self.proxies; its keys, in the
                    \* dict's order, are the proxies 1..pm_pool
  pm_strategy,      \* self.rotation_strategy
  pm_max_failures,  \* self.max_failures
  pm_proxies,       \* self.proxies: per proxy a ProxyInfo [health,
                    \* success_count, failure_count, total_requests,
                    \* avg_response_time (in units of 1/AvgUnit second)]
  pm_index,         \* self._current_index, modulo IndexModulus
  pm_ev             \* history: the last operation, [op, proxy, ret, probe]:
                    \* its name, its proxy_url argument, what get_proxy
                    \* returned, and whether a health-check probe made it

pm_vars == <<pm_pool, pm_strategy, pm_max_failures, pm_proxies, pm_index, pm_ev>>

VARIABLES
  hc_task,     \* self._health_check_task: a task of hc_loops, or NoTask
  hc_loops,    \* per task created for _health_check_loop: [st, cancel], st
               \* being "none" (not created), "sleep" (in asyncio.sleep),
               \* "check" (in asyncio.gather) or "done", and cancel telling
               \* that cancel() was called on it
  hc_probes,   \* per task and proxy, the _check_proxy of the task's round:
               \* "idle", "running", "recorded" (record_success or
               \* record_failure called), "escaped" (ended by an exception
               \* that it did not record) or "cancelled"
  hc_callers,  \* per caller of stop_health_checks: the task it awaits, or
               \* NoTask
  hc_rounds,   \* history: the rounds of probes started so far
  hc_ev        \* history: the last step, [op, task, proxy, outcome]

hc_vars == <<hc_task, hc_loops, hc_probes, hc_callers, hc_rounds, hc_ev>>

VARIABLES
  hg_strategy,  \* UserAgentManager.rotation_strategy
  hg_index,     \* UserAgentManager._current_index, modulo the number of
                \* user agents
  hg_ev         \* history: the last generate, [op, url, custom, headers]

hg_vars == <<hg_strategy, hg_index, hg_ev>>

VARIABLES
  dl_limiters,  \* DomainRateLimiter._limiters: per domain the bucket, a
                \* RateLimiter [made, tokens, elapsed, owner, waiters], made
                \* (history) counting the RateLimiter objects created for the
                \* domain, 0 when the domain is not a key
  dl_pc,        \* per caller of acquire(domain): "idle", "lock", "run", "sleep"
  dl_dom,       \* per caller, the domain it acquires for
  dl_sleep,     \* per caller, the ticks left of its asyncio.sleep
  dl_ev         \* history: the last step, [op, proc, domain]

dl_vars == <<dl_limiters, dl_pc, dl_dom, dl_sleep, dl_ev>>

VARIABLES
  al_min_rate,  \* AdaptiveRateLimiter.min_rate      (rates and the factor
  al_max_rate,  \* AdaptiveRateLimiter.max_rate       are fractions <<n, d>>
  al_factor,    \* AdaptiveRateLimiter.adjustment_factor  in lowest terms)
  al_current_rate,  \* AdaptiveRateLimiter.current_rate
  al_limiter,   \* AdaptiveRateLimiter._limiter: [made, rate, burst, tokens,
                \* elapsed], the made-th RateLimiter created by this limiter,
                \* its rate and burst, its tokens in units of 1/d token, d
                \* the denominator of its rate, and time.time() - last_update
                \* in ticks (saturated)
  al_acq,       \* the caller of acquire: [pc, made, sleep], "idle" or in the
                \* "sleep" of the made-th RateLimiter with sleep ticks left
  al_adjusts,   \* history: the on_success, on_rate_limit and on_error calls
  al_ev         \* history: the last step, [op, made, rate, old_rate,
                \* replaced, waited, short]; for acquire the bucket it
                \* acquires from and whether it had to sleep, for the others
                \* their old_rate, whether they made a bucket and whether the
                \* bucket they replaced was short of a token at that time

al_vars == <<al_min_rate, al_max_rate, al_factor, al_current_rate, al_limiter,
             al_acq, al_adjusts, al_ev>>

VARIABLES
  mk_last,   \* history: the last _make_key call, [made, request, key]
  mk_prev    \* history: the _make_key call before it

mk_vars == <<mk_last, mk_prev>>

VARIABLES
  lk_owner,   \* per lock (an asyncio.Lock of one resource), the task inside
              \* its "async with", or NoProc
  lk_todo,    \* per task, what is left of the operation it runs: the lock
              \* events of the operation's code, in order
  lk_ev       \* history: the last step, [op, proc]

lk_vars == <<lk_owner, lk_todo, lk_ev>>

\* round-robin rotation: the proxies returned by the latest get_proxy calls
\* made since the set of eligible proxies last changed, at most as many as
\* there are eligible proxies
VARIABLES rr_served
rr_vars == <<rr_served>>

vars == <<rl_vars, cb_vars, rt_vars, lc_vars, tc_vars, pm_vars, hc_vars, hg_vars, dl_vars, al_vars, mk_vars, lk_vars, rr_vars>>

\* Each component is exercised on its own; the others stay as constructed.
\* (A TieredCache works on the LRUCache that is its L1.)
RLFrame == UNCHANGED <<cb_vars, rt_vars, lc_vars, tc_vars, pm_vars, hc_vars, hg_vars, dl_vars, al_vars, mk_vars, lk_vars, rr_vars>>
CBFrame == UNCHANGED <<rl_vars, rt_vars, lc_vars, tc_vars, pm_vars, hc_vars, hg_vars, dl_vars, al_vars, mk_vars, lk_vars, rr_vars>>
RTFrame == UNCHANGED <<rl_vars, cb_vars, lc_vars, tc_vars, pm_vars, hc_vars, hg_vars, dl_vars, al_vars, mk_vars, lk_vars, rr_vars>>
LCFrame == UNCHANGED <<rl_vars, cb_vars, rt_vars, tc_vars, pm_vars, hc_vars, hg_vars, dl_vars, al_vars, mk_vars, lk_vars, rr_vars>>
TCFrame == UNCHANGED <<rl_vars, cb_vars, rt_vars, pm_vars, hc_vars, hg_vars, dl_vars, al_vars, mk_vars, lk_vars, rr_vars>>
PMFrame == UNCHANGED <<rl_vars, cb_vars, rt_vars, lc_vars, tc_vars, hc_vars, hg_vars, dl_vars, al_vars, mk_vars, lk_vars, rr_vars>>
HCFrame == UNCHANGED <<rl_vars, cb_vars, rt_vars, lc_vars, tc_vars, hg_vars, dl_vars, al_vars, mk_vars, lk_vars, rr_vars>>
HGFrame == UNCHANGED <<rl_vars, cb_vars, rt_vars, lc_vars, tc_vars, pm_vars, hc_vars, dl_vars, al_vars, mk_vars, lk_vars, rr_vars>>
DLFrame == UNCHANGED <<rl_vars, cb_vars, rt_vars, lc_vars, tc_vars, pm_vars, hc_vars, hg_vars, al_vars, mk_vars, lk_vars, rr_vars>>
ALFrame == UNCHANGED <<rl_vars, cb_vars, rt_vars, lc_vars, tc_vars, pm_vars, hc_vars, hg_vars, dl_vars, mk_vars, lk_vars, rr_vars>>
MKFrame == UNCHANGED <<rl_vars, cb_vars, rt_vars, lc_vars, tc_vars, pm_vars, hc_vars, hg_vars, dl_vars, al_vars, lk_vars, rr_vars>>
LKFrame == UNCHANGED <<rl_vars, cb_vars, rt_vars, lc_vars, tc_vars, pm_vars, hc_vars, hg_vars, dl_vars, al_vars, mk_vars, rr_vars>>
RRFrame == UNCHANGED <<rl_vars, cb_vars, rt_vars, lc_vars, tc_vars, hc_vars, hg_vars, dl_vars, al_vars, mk_vars, lk_vars>>

(* ============================ RateLimiter ============================= *)
BurstUnits == Burst * RateDen
\* Beyond this many ticks the refill is capped by burst whatever tokens was.
ElapsedCap == CeilDiv(BurstUnits, RateNum)

InitRateLimiter ==
  /\ rl_tokens = BurstUnits
  /\ rl_elapsed = 0
  /\ rl_owner = NoProc
  /\ rl_waiters = <<>>
  /\ rl_pc = [p \in Procs |-> "idle"]
  /\ rl_req = [p \in Procs |-> 0]
  /\ rl_sleep = [p \in Procs |-> 0]
  /\ rl_excess = 0
  /\ rl_slept = FALSE

\* min(self.burst, self.tokens + elapsed * self.rate)
RefilledNoCap(tokens, elapsed) == tokens + elapsed * RateNum
Refilled(tokens, elapsed) == Min(BurstUnits, tokens + elapsed * RateNum)

\* if self.tokens >= tokens
EnoughAlways(tokens, n) == TRUE
Enough(tokens, n) == tokens >= n * RateDen

\* wait_time = (tokens - self.tokens) / self.rate; the sleep ends at the first
\* tick at or after it
WaitTime(tokens, n) == CeilDiv(n * RateDen - tokens, RateNum)

\* leaving "async with self._lock"
KeepLock(p) == rl_owner' = rl_owner
ReleaseLock(p) == rl_owner' = NoProc

\* await asyncio.sleep(wait_time) is inside "async with self._lock"
UnlockWhileSleeping(p) == rl_owner' = NoProc
LockWhileSleeping(p) == rl_owner' = rl_owner

\* acquire(n) is called: async with self._lock takes the free lock at once,
\* or the caller queues behind the holder and the earlier waiters.
RLCall(p) ==
  /\ rl_pc[p] = "idle"
  /\ \E n \in Requests : rl_req' = [rl_req EXCEPT ![p] = n]
  /\ IF rl_owner = NoProc /\ rl_waiters = <<>>
       THEN /\ rl_owner' = p
            /\ rl_pc' = [rl_pc EXCEPT ![p] = "run"]
            /\ rl_slept' = FALSE
            /\ UNCHANGED rl_waiters
       ELSE /\ rl_waiters' = Append(rl_waiters, p)
            /\ rl_pc' = [rl_pc EXCEPT ![p] = "lock"]
            /\ UNCHANGED <<rl_owner, rl_slept>>
  /\ UNCHANGED <<rl_tokens, rl_elapsed, rl_sleep, rl_excess>>
  /\ RLFrame

\* the released lock goes to the longest-waiting caller
RLLock(p) ==
  /\ rl_pc[p] = "lock"
  /\ rl_owner = NoProc
  /\ rl_waiters # <<>> /\ Head(rl_waiters) = p
  /\ rl_owner' = p
  /\ rl_waiters' = Tail(rl_waiters)
  /\ rl_pc' = [rl_pc EXCEPT ![p] = "run"]
  /\ rl_slept' = FALSE
  /\ UNCHANGED <<rl_tokens, rl_elapsed, rl_req, rl_sleep, rl_excess>>
  /\ RLFrame

\* One iteration of "while True", which holds no suspension point before its
\* return or its sleep: now = time.time(); tokens = min(burst, tokens +
\* elapsed*rate); last_update = now; with enough tokens deduct and return (the
\* lock is released), otherwise sleep wait_time, still holding the lock.
RLIterate(p) ==
  /\ rl_pc[p] = "run"
  /\ rl_elapsed' = 0
  /\ LET t == Refilled(rl_tokens, rl_elapsed) IN
       IF Enough(t, rl_req[p])
         THEN /\ rl_tokens' = t - rl_req[p] * RateDen
              /\ rl_excess' = rl_excess + rl_req[p] * RateDen
              /\ ReleaseLock(p)
              /\ rl_pc' = [rl_pc EXCEPT ![p] = "idle"]
              /\ rl_req' = [rl_req EXCEPT ![p] = 0]
              /\ UNCHANGED <<rl_sleep, rl_slept>>
         ELSE /\ rl_tokens' = t
              /\ rl_sleep' = [rl_sleep EXCEPT ![p] = WaitTime(t, rl_req[p])]
              /\ rl_pc' = [rl_pc EXCEPT ![p] = "sleep"]
              /\ rl_slept' = TRUE
              /\ LockWhileSleeping(p)
              /\ UNCHANGED <<rl_excess, rl_req>>
  /\ UNCHANGED rl_waiters
  /\ RLFrame

\* asyncio.sleep(wait_time) is over: next iteration of while True
RLWake(p) ==
  /\ rl_pc[p] = "sleep"
  /\ rl_sleep[p] = 0
  /\ rl_pc' = [rl_pc EXCEPT ![p] = "run"]
  /\ UNCHANGED <<rl_tokens, rl_elapsed, rl_owner, rl_waiters, rl_req, rl_sleep,
                 rl_excess, rl_slept>>
  /\ RLFrame

\* One tick of the clock.  Every window that ends now grows by a tick, and the
\* empty window that starts now has granted nothing.
RLTick ==
  /\ rl_elapsed' = Min(ElapsedCap, rl_elapsed + 1)
  /\ rl_sleep' = [p \in Procs |-> Max(0, rl_sleep[p] - 1)]
  /\ rl_excess' = Max(0, rl_excess - RateNum)
  /\ UNCHANGED <<rl_tokens, rl_owner, rl_waiters, rl_pc, rl_req, rl_slept>>
  /\ RLFrame

(* ========================= DomainRateLimiter ========================== *)
(* DomainRateLimiter(rate, burst) with one RateLimiter(rate, burst) per    *)
(* domain, each with its own lock, tokens and last_update.  The block      *)
(* under the lock of the dict holds no suspension point.                   *)
Domains == {"a", "b"}
NoDomain == "None"
MaxMade == 2            \* RateLimiter objects counted per domain at most

NoLimiter ==
  [made |-> 0, tokens |-> 0, elapsed |-> 0, owner |-> NoProc, waiters |-> <<>>]

\* RateLimiter(self.rate, self.burst)
NewLimiter(made) ==
  [made |-> made, tokens |-> BurstUnits, elapsed |-> 0, owner |-> NoProc,
   waiters |-> <<>>]

InitDomainRateLimiter ==
  /\ dl_limiters = [d \in Domains |-> NoLimiter]
  /\ dl_pc = [p \in Procs |-> "idle"]
  /\ dl_dom = [p \in Procs |-> NoDomain]
  /\ dl_sleep = [p \in Procs |-> 0]
  /\ dl_ev = [op |-> "new", proc |-> NoProc, domain |-> NoDomain]

\* if domain not in self._limiters: self._limiters[domain] = RateLimiter(...)
CreatedAlways(limiters, d) ==
  [limiters EXCEPT ![d] = NewLimiter(Min(MaxMade, limiters[d].made + 1))]
Created(limiters, d) ==
  IF limiters[d].made = 0
    THEN [limiters EXCEPT ![d] = NewLimiter(1)]
    ELSE limiters

\* acquire(domain) is called: the bucket is looked up or created under the
\* lock of the dict, and self._limiters[domain].acquire() takes the bucket's
\* free lock at once or queues for it
DLCall(p, d) ==
  /\ dl_pc[p] = "idle"
  /\ LET limiters == Created(dl_limiters, d) IN
       IF limiters[d].owner = NoProc /\ limiters[d].waiters = <<>>
         THEN /\ dl_limiters' = [limiters EXCEPT ![d].owner = p]
              /\ dl_pc' = [dl_pc EXCEPT ![p] = "run"]
         ELSE /\ dl_limiters' = [limiters EXCEPT ![d].waiters = Append(@, p)]
              /\ dl_pc' = [dl_pc EXCEPT ![p] = "lock"]
  /\ dl_dom' = [dl_dom EXCEPT ![p] = d]
  /\ dl_ev' = [op |-> "call", proc |-> p, domain |-> d]
  /\ UNCHANGED dl_sleep
  /\ DLFrame

\* the released lock of the bucket goes to its longest-waiting caller
DLLock(p) ==
  /\ dl_pc[p] = "lock"
  /\ LET d == dl_dom[p] IN
       /\ dl_limiters[d].owner = NoProc
       /\ dl_limiters[d].waiters # <<>> /\ Head(dl_limiters[d].waiters) = p
       /\ dl_limiters' = [dl_limiters EXCEPT ![d].owner = p,
                                             ![d].waiters = Tail(@)]
       /\ dl_ev' = [op |-> "lock", proc |-> p, domain |-> d]
  /\ dl_pc' = [dl_pc EXCEPT ![p] = "run"]
  /\ UNCHANGED <<dl_dom, dl_sleep>>
  /\ DLFrame

\* one iteration of "while True" of the bucket's acquire(1)
DLIterate(p) ==
  /\ dl_pc[p] = "run"
  /\ LET d == dl_dom[p]
         t == Refilled(dl_limiters[d].tokens, dl_limiters[d].elapsed)
     IN  /\ dl_ev' = [op |-> "iterate", proc |-> p, domain |-> d]
         /\ IF Enough(t, 1)
              THEN /\ dl_limiters' = [dl_limiters EXCEPT ![d].tokens = t - RateDen,
                                                         ![d].elapsed = 0,
                                                         ![d].owner = NoProc]
                   /\ dl_pc' = [dl_pc EXCEPT ![p] = "idle"]
                   /\ dl_dom' = [dl_dom EXCEPT ![p] = NoDomain]
                   /\ UNCHANGED dl_sleep
              ELSE /\ dl_limiters' = [dl_limiters EXCEPT ![d].tokens = t,
                                                         ![d].elapsed = 0]
                   /\ dl_sleep' = [dl_sleep EXCEPT ![p] = WaitTime(t, 1)]
                   /\ dl_pc' = [dl_pc EXCEPT ![p] = "sleep"]
                   /\ UNCHANGED dl_dom
  /\ DLFrame

\* asyncio.sleep(wait_time) is over: next iteration of while True
DLWake(p) ==
  /\ dl_pc[p] = "sleep"
  /\ dl_sleep[p] = 0
  /\ dl_pc' = [dl_pc EXCEPT ![p] = "run"]
  /\ dl_ev' = [op |-> "wake", proc |-> p, domain |-> dl_dom[p]]
  /\ UNCHANGED <<dl_limiters, dl_dom, dl_sleep>>
  /\ DLFrame

\* one tick of the clock
DLTick ==
  /\ dl_limiters' =
       [d \in Domains |->
          IF dl_limiters[d].made = 0 THEN dl_limiters[d]
          ELSE [dl_limiters[d] EXCEPT !.elapsed = Min(ElapsedCap, @ + 1)]]
  /\ dl_sleep' = [p \in Procs |-> Max(0, dl_sleep[p] - 1)]
  /\ dl_ev' = [op |-> "tick", proc |-> NoProc, domain |-> NoDomain]
  /\ UNCHANGED <<dl_pc, dl_dom>>
  /\ DLFrame

(* ======================== AdaptiveRateLimiter ========================= *)
(* Rates are fractions <<n, d>> with d > 0, in lowest terms, so that equal *)
(* rates are equal values.                                                 *)
Abs(n) == IF n < 0 THEN -n ELSE n
RECURSIVE Gcd(_, _)
Gcd(a, b) == IF b = 0 THEN a ELSE Gcd(b, a % b)
Frac(n, d) ==
  LET g == Gcd(Abs(n), d) IN IF g = 0 THEN <<0, 1>> ELSE <<n \div g, d \div g>>
Times(r, s) == Frac(r[1] * s[1], r[2] * s[2])
Leq(r, s) == r[1] * s[2] <= s[1] * r[2]
MinRate(r, s) == IF Leq(r, s) THEN r ELSE s
MaxRate(r, s) == IF Leq(s, r) THEN r ELSE s

\* AdaptiveRateLimiter(initial_rate, min_rate, max_rate, adjustment_factor)
MinRates == {<<1, 2>>}
MaxRates == {<<2, 1>>}
InitialRates == {<<1, 2>>, <<1, 1>>, <<2, 1>>}
AdjustmentFactors == {<<1, 2>>, <<1, 1>>, <<2, 1>>}

\* adjustments followed by the model
MaxAdjustments == 4

\* RateLimiter(rate), the made-th one: burst = 1, tokens = float(burst),
\* last_update = time.time()
AdaptiveBucketEmpty(made, rate) ==
  [made |-> made, rate |-> rate, burst |-> 1, tokens |-> 0, elapsed |-> 0]
AdaptiveBucket(made, rate) ==
  [made |-> made, rate |-> rate, burst |-> 1, tokens |-> rate[2], elapsed |-> 0]

\* a step that made no bucket and is not an acquire that had to sleep
ALEvent(op, bucket) ==
  [op |-> op, made |-> bucket.made, rate |-> bucket.rate,
   old_rate |-> bucket.rate, replaced |-> FALSE, waited |-> FALSE,
   short |-> FALSE]

AcqIdle == [pc |-> "idle", made |-> 0, sleep |-> 0]

InitAdaptiveRateLimiter ==
  /\ al_min_rate = <<1, 10>>
  /\ al_max_rate = <<10, 1>>
  /\ al_factor = <<1, 2>>
  /\ al_current_rate = <<1, 1>>
  /\ al_limiter = AdaptiveBucket(1, <<1, 1>>)
  /\ al_acq = AcqIdle
  /\ al_adjusts = 0
  /\ al_ev = [op |-> "new", made |-> 0, rate |-> <<0, 1>>,
              old_rate |-> <<0, 1>>, replaced |-> FALSE, waited |-> FALSE,
              short |-> FALSE]

\* self.current_rate * (1 + self.adjustment_factor * 0.1)
Faster(rate, factor) ==
  Times(rate, Frac(10 * factor[2] + factor[1], 10 * factor[2]))

\* min(self.max_rate, self.current_rate * (1 + self.adjustment_factor * 0.1))
SpedUpUnclamped(rate, factor, max_rate) == Faster(rate, factor)
SpedUp(rate, factor, max_rate) == MinRate(max_rate, Faster(rate, factor))

\* max(self.min_rate, self.current_rate * (1 - self.adjustment_factor))
SlowedDown(rate, factor, min_rate) ==
  MaxRate(min_rate, Times(rate, Frac(factor[2] - factor[1], factor[2])))

\* RateLimiter.acquire on bucket b: min(self.burst, self.tokens + elapsed *
\* self.rate), and the ticks after which nothing more is added
BucketRefilled(b) ==
  Min(b.burst * b.rate[2], b.tokens + b.elapsed * b.rate[1])
BucketElapsedCap(b) == CeilDiv(b.burst * b.rate[2], b.rate[1])

\* bucket b holds less than the one token that acquire() asks for
Short(b) == BucketRefilled(b) < b.rate[2]

\* AdaptiveRateLimiter(initial_rate, min_rate, max_rate, adjustment_factor)
ALConfigure ==
  /\ al_ev.op = "new"
  /\ al_min_rate' \in MinRates
  /\ al_max_rate' \in MaxRates
  /\ al_factor' \in AdjustmentFactors
  /\ al_current_rate' \in InitialRates
  /\ al_limiter' = AdaptiveBucket(1, al_current_rate')
  /\ al_ev' = [al_ev EXCEPT !.op = "init"]
  /\ UNCHANGED <<al_adjusts, al_acq>>
  /\ ALFrame

\* acquire(): self._limiter.acquire(), up to its return or its first sleep
ALAcquire ==
  /\ al_ev.op # "new"
  /\ al_acq.pc = "idle"
  /\ LET t == BucketRefilled(al_limiter)
         d == al_limiter.rate[2]
     IN  IF t >= d
           THEN /\ al_limiter' = [al_limiter EXCEPT !.tokens = t - d, !.elapsed = 0]
                /\ al_ev' = ALEvent("acquire", al_limiter)
                /\ UNCHANGED al_acq
           ELSE /\ al_limiter' = [al_limiter EXCEPT !.tokens = t, !.elapsed = 0]
                /\ al_acq' = [pc |-> "sleep", made |-> al_limiter.made,
                              sleep |-> CeilDiv(d - t, al_limiter.rate[1])]
                /\ al_ev' = [ALEvent("acquire", al_limiter) EXCEPT !.waited = TRUE]
  /\ UNCHANGED <<al_min_rate, al_max_rate, al_factor, al_current_rate,
                 al_adjusts>>
  /\ ALFrame

\* asyncio.sleep(wait_time) of acquire is over: the next iteration of the
\* loop of the RateLimiter that the caller is in, which is self._limiter or
\* a RateLimiter replaced meanwhile; in the latter the caller is alone, and
\* its tokens are there after the sleep
ALWake ==
  /\ al_acq.pc = "sleep" /\ al_acq.sleep = 0
  /\ IF al_acq.made = al_limiter.made
       THEN LET t == BucketRefilled(al_limiter)
                d == al_limiter.rate[2]
            IN  IF t >= d
                  THEN /\ al_limiter' =
                            [al_limiter EXCEPT !.tokens = t - d, !.elapsed = 0]
                       /\ al_acq' = AcqIdle
                  ELSE /\ al_limiter' =
                            [al_limiter EXCEPT !.tokens = t, !.elapsed = 0]
                       /\ al_acq' = [al_acq EXCEPT
                                       !.sleep = CeilDiv(d - t, al_limiter.rate[1])]
       ELSE /\ al_acq' = AcqIdle
            /\ UNCHANGED al_limiter
  /\ al_ev' = [ALEvent("wake", al_limiter) EXCEPT !.made = al_acq.made]
  /\ UNCHANGED <<al_min_rate, al_max_rate, al_factor, al_current_rate,
                 al_adjusts>>
  /\ ALFrame

\* on_success()
ALOnSuccess ==
  /\ al_ev.op # "new"
  /\ al_adjusts < MaxAdjustments
  /\ al_adjusts' = al_adjusts + 1
  /\ al_current_rate' = SpedUp(al_current_rate, al_factor, al_max_rate)
  /\ al_limiter' = IF al_current_rate' # al_current_rate
                     THEN AdaptiveBucket(al_limiter.made + 1, al_current_rate')
                     ELSE al_limiter
  /\ al_ev' = [ALEvent("on_success", al_limiter') EXCEPT
                 !.old_rate = al_current_rate,
                 !.replaced = (al_current_rate' # al_current_rate),
                 !.short = (al_current_rate' # al_current_rate
                              /\ Short(al_limiter))]
  /\ UNCHANGED <<al_min_rate, al_max_rate, al_factor, al_acq>>
  /\ ALFrame

\* on_rate_limit(), and on_error(), which awaits on_rate_limit()
ALOnRateLimit(op) ==
  /\ al_ev.op # "new"
  /\ al_adjusts < MaxAdjustments
  /\ al_adjusts' = al_adjusts + 1
  /\ al_current_rate' = SlowedDown(al_current_rate, al_factor, al_min_rate)
  /\ al_limiter' = AdaptiveBucket(al_limiter.made + 1, al_current_rate')
  /\ al_ev' = [ALEvent(op, al_limiter') EXCEPT
                 !.old_rate = al_current_rate,
                 !.replaced = TRUE, !.short = Short(al_limiter)]
  /\ UNCHANGED <<al_min_rate, al_max_rate, al_factor, al_acq>>
  /\ ALFrame

\* one tick of the clock
ALTick ==
  /\ al_ev.op # "new"
  /\ al_limiter' = [al_limiter EXCEPT
                      !.elapsed = Min(BucketElapsedCap(al_limiter), @ + 1)]
  /\ al_acq' = [al_acq EXCEPT !.sleep = Max(0, @ - 1)]
  /\ al_ev' = ALEvent("tick", al_limiter)
  /\ UNCHANGED <<al_min_rate, al_max_rate, al_factor, al_current_rate,
                 al_adjusts>>
  /\ ALFrame

(* =========================== CircuitBreaker =========================== *)
FailureThreshold == 2   \* CircuitBreaker(failure_threshold=...)
RecoveryTimeout == 2    \* CircuitBreaker(recovery_timeout=...), in ticks
SuccessesToClose == 2   \* "Require 2 successes to close"
\* the model stops recording failures at this count (the counter is unbounded)
MaxFailureCount == FailureThreshold + 2

CLOSED == "closed"
OPEN == "open"
HALF_OPEN == "half_open"
NoTime == -1            \* self._last_failure_time = None

InitCircuitBreaker ==
  /\ cb_state = CLOSED
  /\ cb_failure_count = 0
  /\ cb_success_count = 0
  /\ cb_since = NoTime
  /\ cb_pc = [p \in Procs |-> "idle"]
  /\ cb_ev = [op |-> "init", pre |-> CLOSED]
  /\ cb_streak = 0
  /\ cb_peak = 0
  /\ cb_episode = 0

\* _should_attempt_reset
ShouldAttemptResetAlways == TRUE
ShouldAttemptResetLate == cb_since # NoTime /\ cb_since > RecoveryTimeout
ShouldAttemptReset == cb_since # NoTime /\ cb_since >= RecoveryTimeout

\* _on_failure: elif self._failure_count >= self.failure_threshold
ThresholdReachedLate(count) == count > FailureThreshold
ThresholdReached(count) == count >= FailureThreshold

\* _on_failure: the state after a failure that brought the counter to count
StateOnFailureByCount(state, count) ==
  IF ThresholdReached(count) THEN OPEN ELSE state
StateOnFailure(state, count) ==
  IF state = HALF_OPEN THEN OPEN
  ELSE IF ThresholdReached(count) THEN OPEN
  ELSE state

\* _on_success: if self._state == self.HALF_OPEN
ProbingOrOpen(state) == state # CLOSED
Probing(state) == state = HALF_OPEN

\* _on_success: self._failure_count = 0
FailureCountKept(count) == count
FailureCountOnSuccess(count) == 0

\* _on_success: self._success_count = 0 when the breaker closes, count being
\* the counter after its increment
SuccessCountKept(count) == count
SuccessCountOnClose(count) == 0

\* call(): raise CircuitBreakerError("Circuit breaker is OPEN")
RejectedAsFailure ==
  /\ cb_since' = 0
  /\ cb_failure_count' = Min(MaxFailureCount, cb_failure_count + 1)
  /\ UNCHANGED <<cb_state, cb_success_count>>
Rejected ==
  UNCHANGED <<cb_state, cb_failure_count, cb_success_count, cb_since>>

\* except self.expected_exception, which is Exception: an exception of class
\* kind is caught unless it is a BaseException only, as CancelledError is
ExpectedExceptionAny(kind) == TRUE
ExpectedException(kind) == kind = "Exception"

\* call(): the admission section and, when admitted, the start of func(...);
\* no suspension point lies between the two.  An Open breaker whose timeout
\* has elapsed goes HalfOpen; otherwise CircuitBreakerError is raised.
CBCall(p) ==
  /\ cb_pc[p] = "idle"
  /\ IF cb_state = OPEN /\ ~ShouldAttemptReset
       THEN /\ cb_ev' = [op |-> "reject", pre |-> cb_state]
            /\ Rejected
            /\ UNCHANGED <<cb_pc, cb_episode>>
       ELSE /\ cb_state' = IF cb_state = OPEN THEN HALF_OPEN ELSE cb_state
            /\ cb_episode' = IF cb_state = OPEN THEN 0 ELSE cb_episode
            /\ cb_pc' = [cb_pc EXCEPT ![p] = "running"]
            /\ cb_ev' = [op |-> "admit", pre |-> cb_state]
            /\ UNCHANGED <<cb_failure_count, cb_success_count, cb_since>>
  /\ UNCHANGED <<cb_streak, cb_peak>>
  /\ CBFrame

\* func returned: _on_success, then the result is returned
CBSucceed(p) ==
  /\ cb_pc[p] = "running"
  /\ cb_failure_count' = FailureCountOnSuccess(cb_failure_count)
  /\ IF Probing(cb_state)
       THEN IF cb_success_count + 1 >= SuccessesToClose
              THEN /\ cb_state' = CLOSED
                   /\ cb_success_count' = SuccessCountOnClose(cb_success_count + 1)
              ELSE /\ cb_state' = cb_state
                   /\ cb_success_count' = cb_success_count + 1
       ELSE UNCHANGED <<cb_state, cb_success_count>>
  /\ cb_pc' = [cb_pc EXCEPT ![p] = "idle"]
  /\ cb_ev' = [op |-> "success", pre |-> cb_state]
  /\ cb_streak' = 0
  /\ cb_episode' = IF cb_state = HALF_OPEN
                     THEN Min(SuccessesToClose, cb_episode + 1) ELSE cb_episode
  /\ UNCHANGED <<cb_since, cb_peak>>
  /\ CBFrame

\* func raised an exception of class kind: _on_failure if the except clause
\* catches it, and the exception propagates; the event's op is "failure" for
\* an Exception and "other" for an exception that is none
CBRaise(p, kind) ==
  /\ cb_pc[p] = "running"
  /\ cb_pc' = [cb_pc EXCEPT ![p] = "idle"]
  /\ cb_ev' = [op |-> IF kind = "Exception" THEN "failure" ELSE "other",
               pre |-> cb_state]
  /\ IF ExpectedException(kind)
       THEN /\ cb_failure_count < MaxFailureCount
            /\ cb_failure_count' = cb_failure_count + 1
            /\ cb_since' = 0
            /\ cb_state' = StateOnFailure(cb_state, cb_failure_count + 1)
            /\ cb_streak' = Min(MaxFailureCount, cb_streak + 1)
            /\ cb_peak' = Min(FailureThreshold, Max(cb_peak, cb_streak + 1))
            /\ UNCHANGED <<cb_success_count, cb_episode>>
       ELSE UNCHANGED <<cb_state, cb_failure_count, cb_success_count, cb_since,
                        cb_streak, cb_peak, cb_episode>>
  /\ CBFrame

\* func raised an expected_exception: _on_failure, then the exception is re-raised
CBFail(p) == CBRaise(p, "Exception")

\* func ended with an exception outside expected_exception (with the default
\* Exception: a cancellation): it propagates and nothing is recorded
CBOther(p) == CBRaise(p, "CancelledError")

\* one tick of the clock
CBTick ==
  /\ cb_since' = IF cb_since = NoTime THEN NoTime
                 ELSE Min(RecoveryTimeout, cb_since + 1)
  /\ cb_ev' = [op |-> "tick", pre |-> cb_state]
  /\ UNCHANGED <<cb_state, cb_failure_count, cb_success_count, cb_pc,
                 cb_streak, cb_peak, cb_episode>>
  /\ CBFrame

(* ============================ RetryHandler ============================ *)
MaxRetries == 3     \* the largest RetryConfig.max_retries tried
BaseDelay == 1      \* RetryConfig.base_delay
ExpBase == 2        \* RetryConfig.exponential_base
MaxDelay == 3       \* RetryConfig.max_delay

\* HTTP status codes a result may carry, and RetryConfig.retry_on_status
StatusCodes == {200, 404, 429, 503}
RetryOnStatus == {429, 500, 502, 503, 504}

\* What one invocation of func does: it returns a result without a
\* status_code, returns a result with one, raises an Exception, raises the
\* CircuitBreakerError of a CircuitBreaker.call rejected while the breaker is
\* open (func being breaker.call), or raises a BaseException that is no
\* Exception (a cancellation).
Outcomes ==
  {<<"value", 0>>, <<"exception", 0>>, <<"CircuitBreakerError", 0>>,
   <<"cancelled", 0>>}
    \cup {<<"status", c>> : c \in StatusCodes}

NoException == <<"none", 0, 0>>

\* before RetryHandler(config) is constructed
InitRetryHandler ==
  /\ rt_max_retries = 0
  /\ rt_jitter = FALSE
  /\ rt_pc = "new"
  /\ rt_attempt = 0
  /\ rt_last_exception = NoException
  /\ rt_result = NoException
  /\ rt_outcomes = <<>>
  /\ rt_delays = <<>>

RECURSIVE Power(_, _)
Power(b, e) == IF e = 0 THEN 1 ELSE b * Power(b, e - 1)

\* _calculate_delay before jitter, in 1/10 units:
\* min(base_delay * exponential_base ** attempt, max_delay)
CalculateDelayUncapped(attempt) == 10 * BaseDelay * Power(ExpBase, attempt)
CalculateDelay(attempt) == 10 * Min(BaseDelay * Power(ExpBase, attempt), MaxDelay)

\* random.uniform(0, delay * 0.1) when config.jitter, to the 1/10 unit
Jitters(delay) == IF rt_jitter THEN 0..(delay \div 10) ELSE {0}

\* hasattr(result, 'status_code') and result.status_code in retry_on_status
RetryableStatusNever(o) == FALSE
RetryableStatus(o) == o[1] = "status" /\ o[2] \in RetryOnStatus

\* "except Exception as e": what func raised is caught; CircuitBreakerError
\* is a subclass of Exception and no except clause singles it out
Caught(o) == o[1] \in {"exception", "CircuitBreakerError"}

\* the exception an outcome makes the try block raise
Raised(o, attempt) ==
  IF o[1] = "status" THEN <<"HTTPStatusError", o[2], attempt>>
  ELSE <<o[1], 0, attempt>>

\* if attempt == self.config.max_retries: raise
NeverExhausted(attempt) == FALSE
ExhaustedEarly(attempt) == attempt + 1 >= rt_max_retries
Exhausted(attempt) == attempt = rt_max_retries

\* RetryHandler(config): max_retries and jitter are fixed for the handler's life
RTConfigure ==
  /\ rt_pc = "new"
  /\ rt_max_retries' \in 0..MaxRetries
  /\ rt_jitter' \in BOOLEAN
  /\ rt_pc' = "idle"
  /\ UNCHANGED <<rt_attempt, rt_last_exception, rt_result, rt_outcomes, rt_delays>>
  /\ RTFrame

\* execute(func, ...) is called: last_exception = None, the loop starts at 0
RTExecute ==
  /\ rt_pc \in {"idle", "returned", "raised"}
  /\ rt_pc' = "invoke"
  /\ rt_attempt' = 0
  /\ rt_last_exception' = NoException
  /\ rt_result' = NoException
  /\ rt_outcomes' = <<>>
  /\ rt_delays' = <<>>
  /\ UNCHANGED <<rt_max_retries, rt_jitter>>
  /\ RTFrame

\* One pass of the loop body up to its return, raise or sleep: func is
\* invoked and ends with outcome o.
RTInvoke(o) ==
  /\ rt_pc = "invoke"
  /\ rt_outcomes' = Append(rt_outcomes, o)
  /\ IF o[1] = "cancelled"
       THEN \* not an Exception: "except Exception" does not catch it
            /\ rt_pc' = "raised"
            /\ rt_result' = Raised(o, rt_attempt)
            /\ UNCHANGED <<rt_last_exception, rt_delays>>
       ELSE IF Caught(o) \/ RetryableStatus(o)
       THEN /\ rt_last_exception' = Raised(o, rt_attempt)
            /\ IF Exhausted(rt_attempt)
                 THEN /\ rt_pc' = "raised"
                      /\ rt_result' = Raised(o, rt_attempt)
                      /\ UNCHANGED rt_delays
                 ELSE /\ rt_pc' = "sleep"
                      /\ \E j \in Jitters(CalculateDelay(rt_attempt)) :
                           rt_delays' =
                             Append(rt_delays, CalculateDelay(rt_attempt) + j)
                      /\ UNCHANGED rt_result
       ELSE /\ rt_pc' = "returned"
            /\ rt_result' = <<o[1], o[2], rt_attempt>>
            /\ UNCHANGED <<rt_last_exception, rt_delays>>
  /\ UNCHANGED <<rt_max_retries, rt_jitter, rt_attempt>>
  /\ RTFrame

\* asyncio.sleep(delay) is over: the for loop goes to the next attempt, or,
\* the range being used up, execute raises last_exception
RTWake ==
  /\ rt_pc = "sleep"
  /\ IF rt_attempt + 1 <= rt_max_retries
       THEN /\ rt_attempt' = rt_attempt + 1
            /\ rt_pc' = "invoke"
            /\ UNCHANGED rt_result
       ELSE /\ rt_pc' = "raised"
            /\ rt_result' = rt_last_exception
            /\ UNCHANGED rt_attempt
  /\ UNCHANGED <<rt_max_retries, rt_jitter, rt_last_exception, rt_outcomes,
                 rt_delays>>
  /\ RTFrame

(* ============================= LRUCache =============================== *)
Ttl == 1            \* the positive TTL given to set, in ticks
MaxHits == 2        \* CacheEntry.hits is followed up to this value

\* LRUCache(max_size, default_ttl): the capacities, and the default TTLs
\* (entries set without a ttl never expire)
Sizes == {1, 2}
DefaultTtls == {-1, 0}
Keys == {"k1", "k2", "k3"}
Values == {"v", "w"}
None == "None"
\* the ttl argument of set, an Optional[int]: None (use default_ttl) or a
\* positive number
NoTtl == <<>>
TtlArgs == {NoTtl, <<Ttl>>}

\* an operation that evicted nothing
Event(op, key, ret) == [op |-> op, key |-> key, ret |-> ret, evicted |-> {}]

\* before LRUCache(max_size, default_ttl) is constructed
InitLRUCache ==
  /\ lc_max_size = 0
  /\ lc_default_ttl = 0
  /\ lc_cache = <<>>
  /\ lc_ev = Event("new", None, None)
  /\ lc_touch = <<>>

\* CacheEntry.is_expired: time.time() - created_at > ttl unless ttl <= 0
IsExpiredByAge(e) == e.age > e.ttl
IsExpired(e) == IF e.ttl <= 0 THEN FALSE ELSE e.age > e.ttl

\* ages beyond this one are not told apart by is_expired
AgeCap(e) == Max(e.ttl, 0) + 1

\* key in self._cache, and the position of its entry
Stored(c, k) == \E i \in 1..Len(c) : c[i].key = k
Index(c, k) == CHOOSE i \in 1..Len(c) : c[i].key = k
StoredKeys(c) == {c[i].key : i \in 1..Len(c)}

\* del self._cache[key]
Del(c, k) == SelectSeq(c, LAMBDA e : e.key # k)

\* self._cache.move_to_end(key)
Unmoved(c, k) == c
MoveToEnd(c, k) == Append(Del(c, k), c[Index(c, k)])

\* CacheEntry.touch
Untouched(e) == e
Touch(e) == [e EXCEPT !.hits = @ + 1]

\* while len(self._cache) > self.max_size: self._cache.popitem(last=False)
Unevicted(c) == c
RECURSIVE Evict(_)
Evict(c) == IF Len(c) > lc_max_size THEN Evict(Tail(c)) ELSE c

\* the order of last touches once key k has been touched, of the keys that
\* are still stored
Touched(touch, k, stored) ==
  SelectSeq(Append(SelectSeq(touch, LAMBDA x : x # k), k),
            LAMBDA x : x \in stored)

\* the cache as one value, for the operations that other classes call
Cache == [cache |-> lc_cache, touch |-> lc_touch, ev |-> lc_ev]

\* get(key) on cache s: the cache it leaves, s.ev.ret being what it returns
CanGet(s, k) ==
  (Stored(s.cache, k) /\ ~IsExpired(s.cache[Index(s.cache, k)])) =>
    s.cache[Index(s.cache, k)].hits < MaxHits
Get(s, k) ==
  IF ~Stored(s.cache, k)
    THEN [s EXCEPT !.ev = Event("get", k, None)]
  ELSE LET entry == s.cache[Index(s.cache, k)] IN
    IF IsExpired(entry)
      THEN [cache |-> Del(s.cache, k),
            touch |-> SelectSeq(s.touch, LAMBDA x : x # k),
            ev |-> Event("get", k, None)]
      ELSE [cache |-> MoveToEnd([s.cache EXCEPT ![Index(s.cache, k)] = Touch(@)], k),
            touch |-> Touched(s.touch, k, StoredKeys(s.cache)),
            ev |-> Event("get", k, entry.value)]

\* set(key, value, ttl) on cache s: the cache it leaves
Set(s, k, v, t) ==
  LET ttl == IF t # NoTtl THEN t[1] ELSE lc_default_ttl
      entry == [key |-> k, value |-> v, ttl |-> ttl, age |-> 0, hits |-> 0]
      cache == IF Stored(s.cache, k)
                 THEN MoveToEnd([s.cache EXCEPT ![Index(s.cache, k)] = entry], k)
                 ELSE Evict(Append(s.cache, entry))
  IN  [cache |-> cache,
       touch |-> Touched(s.touch, k, StoredKeys(cache)),
       ev |-> [op |-> "set", key |-> k, ret |-> None,
               evicted |-> (StoredKeys(s.cache) \cup {k}) \ StoredKeys(cache)]]

\* LRUCache(max_size, default_ttl)
LCConfigure ==
  /\ lc_ev.op = "new"
  /\ lc_max_size' \in Sizes
  /\ lc_default_ttl' \in DefaultTtls
  /\ lc_ev' = Event("init", None, None)
  /\ UNCHANGED <<lc_cache, lc_touch>>
  /\ LCFrame

\* get(key)
LCGet(k) ==
  /\ lc_ev.op # "new"
  /\ CanGet(Cache, k)
  /\ lc_cache' = Get(Cache, k).cache
  /\ lc_touch' = Get(Cache, k).touch
  /\ lc_ev' = Get(Cache, k).ev
  /\ UNCHANGED <<lc_max_size, lc_default_ttl>>
  /\ LCFrame

\* set(key, value, ttl)
LCSet(k, v, t) ==
  /\ lc_ev.op # "new"
  /\ lc_cache' = Set(Cache, k, v, t).cache
  /\ lc_touch' = Set(Cache, k, v, t).touch
  /\ lc_ev' = Set(Cache, k, v, t).ev
  /\ UNCHANGED <<lc_max_size, lc_default_ttl>>
  /\ LCFrame

\* delete(key)
LCDelete(k) ==
  /\ lc_ev.op # "new"
  /\ lc_cache' = Del(lc_cache, k)
  /\ lc_touch' = SelectSeq(lc_touch, LAMBDA x : x # k)
  /\ lc_ev' = Event("delete", k, IF Stored(lc_cache, k) THEN "True" ELSE "False")
  /\ UNCHANGED <<lc_max_size, lc_default_ttl>>
  /\ LCFrame

\* clear()
LCClear ==
  /\ lc_ev.op # "new"
  /\ lc_cache' = <<>>
  /\ lc_touch' = <<>>
  /\ lc_ev' = Event("clear", None, None)
  /\ UNCHANGED <<lc_max_size, lc_default_ttl>>
  /\ LCFrame

\* cleanup_expired: expired_keys, and the cache once each of them is deleted
ExpiredKeys(c) == {c[i].key : i \in {j \in 1..Len(c) : IsExpired(c[j])}}
CleanedUpOldest(c) ==
  IF ExpiredKeys(c) = {} THEN c
  ELSE Del(c, c[CHOOSE i \in 1..Len(c) :
                  /\ IsExpired(c[i])
                  /\ \A j \in 1..(i - 1) : ~IsExpired(c[j])].key)
CleanedUp(c) == SelectSeq(c, LAMBDA e : e.key \notin ExpiredKeys(c))

\* cleanup_expired(), the event's evicted being its expired_keys
LCCleanupExpired ==
  /\ lc_ev.op # "new"
  /\ lc_cache' = CleanedUp(lc_cache)
  /\ lc_touch' = SelectSeq(lc_touch, LAMBDA x : x \in StoredKeys(lc_cache'))
  /\ lc_ev' = [Event("cleanup_expired", None, None) EXCEPT
                 !.evicted = ExpiredKeys(lc_cache)]
  /\ UNCHANGED <<lc_max_size, lc_default_ttl>>
  /\ LCFrame

\* time.time() advances by one tick
LCTick ==
  /\ lc_ev.op # "new"
  /\ lc_cache' = [i \in 1..Len(lc_cache) |->
                   [lc_cache[i] EXCEPT !.age = Min(AgeCap(lc_cache[i]), @ + 1)]]
  /\ lc_ev' = Event("tick", None, None)
  /\ UNCHANGED <<lc_max_size, lc_default_ttl, lc_touch>>
  /\ LCFrame

(* ============================ ResponseCache =========================== *)
(* ResponseCache._make_key.  A string is a sequence of pieces of text, its *)
(* concatenation being the string.  The first 16 hexadecimal digits of     *)
(* the SHA-256 digest of a string are a term over that string: digests of  *)
(* different strings are taken to differ.                                  *)
RequestUrls == {"https://a.com/x", "https://a.com/y"}
Methods == {"GET", "POST"}

\* body: None, or a string, the empty one and the one reading null included
NoBody == <<>>
Bodies == {NoBody, <<"">>, <<"null">>}

\* headers: None, or a dict; Accept is on the allow list of _make_key, while
\* accept and X-Trace are not
NoRequestHeaders == [given |-> FALSE, dict |-> [k \in {} |-> "*/*"]]
RequestHeaders ==
  {NoRequestHeaders} \cup
    {[given |-> TRUE, dict |-> dict] :
       dict \in UNION {[names -> {"*/*", "text/html"}] :
                         names \in {{}, {"Accept"}, {"accept"},
                                    {"Accept", "X-Trace"}}}}

MakeKeyRequests ==
  [url : RequestUrls, method : Methods, headers : RequestHeaders, body : Bodies]

\* for key in ['Accept', 'Accept-Language', 'User-Agent']
AllowedHeaders == <<"Accept", "Accept-Language", "User-Agent">>

\* cache_headers
CacheHeadersAll(headers) == headers.dict
CacheHeaders(headers) ==
  IF headers.given /\ DOMAIN headers.dict # {}
    THEN [k \in DOMAIN headers.dict \cap SeqRange(AllowedHeaders) |->
            headers.dict[k]]
    ELSE [k \in {} |-> "*/*"]

\* json.dumps of a string or None
JsonString(text) == <<"\"", text, "\"">>
JsonBody(body) == IF body = NoBody THEN <<"null">> ELSE JsonString(body[1])

\* json.dumps of a dict of strings with sort_keys=True, the keys being some of
\* AllowedHeaders, which is in sorted order
RECURSIVE JsonMembers(_, _)
JsonMembers(dict, names) ==
  IF names = <<>> THEN <<>>
  ELSE IF Head(names) \in DOMAIN dict
    THEN <<JsonString(Head(names)), JsonString(dict[Head(names)])>>
           \o JsonMembers(dict, Tail(names))
    ELSE JsonMembers(dict, Tail(names))

\* json.dumps of any dict of strings with sort_keys=True: the members in an
\* order that the keys fix
JsonDict(dict) ==
  IF DOMAIN dict \subseteq SeqRange(AllowedHeaders)
    THEN <<"{", JsonMembers(dict, AllowedHeaders), "}">>
    ELSE <<"{", dict, "}">>

\* key_string = json.dumps(key_components, sort_keys=True)
KeyString(request) ==
  <<"{", JsonString("body"), JsonBody(request.body),
         JsonString("headers"), JsonDict(CacheHeaders(request.headers)),
         JsonString("method"), JsonString(request.method),
         JsonString("url"), JsonString(request.url), "}">>

\* hashlib.sha256(key_string.encode()).hexdigest()[:16]
KeyHash(key_string) == <<"sha256", 16, key_string>>

\* _make_key(url, method, headers, body)
MakeKey(request) ==
  <<"response:", request.method, ":", KeyHash(KeyString(request))>>

NoCall == [made |-> FALSE, request |-> CHOOSE r \in MakeKeyRequests : TRUE,
           key |-> <<>>]

InitResponseCache ==
  /\ mk_last = NoCall
  /\ mk_prev = NoCall

\* _make_key(url, method, headers, body)
MKMakeKey(request) ==
  /\ mk_prev' = mk_last
  /\ mk_last' = [made |-> TRUE, request |-> request, key |-> MakeKey(request)]
  /\ MKFrame

(* ============================ TieredCache ============================= *)
\* the keys the tiered cache is asked for, and those among them that other
\* clients of the L2 and L3 stores write
TierKeys == {"k1", "k2"}
SharedKeys == {"k1"}

NoStore == [present |-> FALSE, data |-> {}]
EmptyStore == [present |-> TRUE, data |-> {}]

\* what a store holds under key k (None: nothing)
Held(store, k) ==
  IF \E p \in store.data : p[1] = k
    THEN (CHOOSE p \in store.data : p[1] = k)[2]
    ELSE None

\* a client of the store writes v under k
Put(store, k, v) ==
  [store EXCEPT !.data = {p \in @ : p[1] # k} \cup {<<k, v>>}]

\* _get_from_l2, _get_from_l3: placeholders, "return None"
GetFromL2(store, k) == None
GetFromL3(store, k) == None

\* _set_to_l2, _set_to_l3: placeholders, "pass"
SetToL2(store, k, v) == store
SetToL3(store, k, v) == store

\* before TieredCache(l1_cache, l2_cache, l3_cache) is constructed
InitTieredCache ==
  /\ tc_l2 = NoStore
  /\ tc_l3 = NoStore
  /\ tc_ev = [op |-> "new", key |-> None, value |-> None, ret |-> None,
              trace |-> <<>>]

\* TieredCache(l1_cache, l2_cache, l3_cache) over a new L1 with a positive
\* default TTL (as the default L1 has) and over stores that are given or not
TCConfigure ==
  /\ tc_ev.op = "new" /\ lc_ev.op = "new"
  /\ lc_max_size' \in Sizes
  /\ lc_default_ttl' = Ttl
  /\ lc_ev' = Event("init", None, None)
  /\ tc_l2' \in {NoStore, EmptyStore}
  /\ tc_l3' \in {NoStore, EmptyStore}
  /\ tc_ev' = [tc_ev EXCEPT !.op = "init"]
  /\ UNCHANGED <<lc_cache, lc_touch>>
  /\ TCFrame

\* get(key): L1, then L2, then L3, promoting what a lower tier returned
TCGet(k) ==
  /\ tc_ev.op # "new"
  /\ CanGet(Cache, k)
  /\ LET l1 == Get(Cache, k)
         v2 == GetFromL2(tc_l2, k)
         v3 == GetFromL3(tc_l3, k)
         t1 == <<"l1.get">>
         t2 == IF tc_l2.present THEN Append(t1, "l2.get") ELSE t1
         t3 == IF tc_l3.present THEN Append(t2, "l3.get") ELSE t2
         Return(l1c, l2, ret, trace) ==
           /\ lc_cache' = l1c.cache
           /\ lc_touch' = l1c.touch
           /\ lc_ev' = l1c.ev
           /\ tc_l2' = l2
           /\ tc_ev' = [op |-> "get", key |-> k, value |-> None, ret |-> ret,
                        trace |-> trace]
     IN  IF l1.ev.ret # None
           THEN Return(l1, tc_l2, l1.ev.ret, t1)
         ELSE IF tc_l2.present /\ v2 # None
           THEN Return(Set(l1, k, v2, NoTtl), tc_l2, v2, Append(t2, "l1.set"))
         ELSE IF tc_l3.present /\ v3 # None
           THEN IF tc_l2.present
                  THEN Return(Set(l1, k, v3, NoTtl), SetToL2(tc_l2, k, v3), v3,
                              t3 \o <<"l2.set", "l1.set">>)
                  ELSE Return(Set(l1, k, v3, NoTtl), tc_l2, v3,
                              Append(t3, "l1.set"))
         ELSE Return(l1, tc_l2, None, t3)
  /\ UNCHANGED <<lc_max_size, lc_default_ttl, tc_l3>>
  /\ TCFrame

\* set(key, value, ttl): L1, then L2 and L3 when they are given
TCSet(k, v, t) ==
  /\ tc_ev.op # "new"
  /\ lc_cache' = Set(Cache, k, v, t).cache
  /\ lc_touch' = Set(Cache, k, v, t).touch
  /\ lc_ev' = Set(Cache, k, v, t).ev
  /\ tc_l2' = IF tc_l2.present THEN SetToL2(tc_l2, k, v) ELSE tc_l2
  /\ tc_l3' = IF tc_l3.present THEN SetToL3(tc_l3, k, v) ELSE tc_l3
  /\ tc_ev' = [op |-> "set", key |-> k, value |-> v, ret |-> None,
               trace |-> <<"l1.set">>
                           \o (IF tc_l2.present THEN <<"l2.set">> ELSE <<>>)
                           \o (IF tc_l3.present THEN <<"l3.set">> ELSE <<>>)]
  /\ UNCHANGED <<lc_max_size, lc_default_ttl>>
  /\ TCFrame

\* another client of the L2 store (tier = 2) or of the L3 store (tier = 3)
\* writes v under k
TCStorePut(tier, k, v) ==
  /\ tc_ev.op # "new"
  /\ IF tier = 2
       THEN tc_l2.present /\ tc_l2' = Put(tc_l2, k, v) /\ UNCHANGED tc_l3
       ELSE tc_l3.present /\ tc_l3' = Put(tc_l3, k, v) /\ UNCHANGED tc_l2
  /\ tc_ev' = [op |-> "put", key |-> k, value |-> v, ret |-> None,
               trace |-> <<>>]
  /\ UNCHANGED lc_vars
  /\ TCFrame

\* time.time() advances by one tick
TCTick ==
  /\ tc_ev.op # "new"
  /\ lc_cache' = [i \in 1..Len(lc_cache) |->
                   [lc_cache[i] EXCEPT !.age = Min(AgeCap(lc_cache[i]), @ + 1)]]
  /\ lc_ev' = Event("tick", None, None)
  /\ tc_ev' = [op |-> "tick", key |-> None, value |-> None, ret |-> None,
               trace |-> <<>>]
  /\ UNCHANGED <<lc_max_size, lc_default_ttl, lc_touch, tc_l2, tc_l3>>
  /\ TCFrame

(* ============================ ProxyManager ============================ *)
MaxFailures == 3    \* ProxyManager(max_failures = 1..MaxFailures)
MaxRequests == MaxFailures + 1   \* requests recorded per proxy at most

\* ProxyManager(proxies, rotation_strategy): the sizes of the pool and the
\* strategies, "first" standing for any string that names no strategy
PoolSizes == {0, 1, 2}
Strategies == {"round_robin", "random", "health_based", "first"}
\* the response times recorded, in seconds: a slow response, which brings the
\* average of a proxy without history to 10 s, where its score gets nothing
\* for speed
ResponseTimes == {50}

\* the proxies of the pool, in the order of self.proxies
Pool == 1..pm_pool
NoProxy == 0        \* get_proxy returns None
\* the proxy_url arguments: the pool's proxies and one that is not in the pool
Urls == Pool \cup {pm_pool + 1}

HEALTHY == "healthy"
DEGRADED == "degraded"
FAILED == "failed"

\* avg_response_time is kept in units of 1/AvgUnit second, which makes the
\* moving average of up to MaxRequests response times exact
AvgUnit == Power(5, MaxRequests)
\* index % len(proxies) is the same for the counter and for the counter
\* modulo a common multiple of the pool sizes
IndexModulus == 6

\* ProxyInfo(url=url)
NewProxyInfo ==
  [health |-> HEALTHY, success_count |-> 0, failure_count |-> 0,
   total_requests |-> 0, avg_response_time |-> 0]

\* before ProxyManager(...) is constructed
InitProxyManager ==
  /\ pm_pool = 0
  /\ pm_strategy = "round_robin"
  /\ pm_max_failures = 0
  /\ pm_proxies = <<>>
  /\ pm_index = 0
  /\ pm_ev = [op |-> "new", proxy |-> NoProxy, ret |-> NoProxy, probe |-> FALSE]

\* ProxyInfo.score, times 1000 * AvgUnit * total_requests (times 1000 * AvgUnit
\* when total_requests is 0, the success rate then being 1.0)
Score(info) ==
  LET num == IF info.total_requests = 0 THEN 1 ELSE info.success_count
      den == IF info.total_requests = 0 THEN 1 ELSE info.total_requests
  IN  700 * num * AvgUnit + 30 * den * Max(0, 10 * AvgUnit - info.avg_response_time)

\* healthy_proxies: the proxies whose health is not FAILED, in pool order
EligibleAll(proxies) == [i \in 1..Len(proxies) |-> i]
Eligible(proxies) ==
  SelectSeq([i \in 1..Len(proxies) |-> i],
            LAMBDA i : proxies[i].health # FAILED)


\* _round_robin_select(proxies): proxies[self._current_index % len(proxies)]
RoundRobinSelectBackwards(healthy) ==
  healthy[Len(healthy) - (pm_index % Len(healthy))]
RoundRobinSelect(healthy) == healthy[(pm_index % Len(healthy)) + 1]

\* what each strategy may select from the non-empty list healthy
Selection(healthy) ==
  IF pm_strategy = "round_robin"
    THEN {RoundRobinSelect(healthy)}
  ELSE IF pm_strategy = "random"
    THEN SeqRange(healthy)
  ELSE IF pm_strategy = "health_based"
    THEN IF \A i \in SeqRange(healthy) : Score(pm_proxies[i]) = 0
           THEN SeqRange(healthy)
           ELSE {i \in SeqRange(healthy) : Score(pm_proxies[i]) > 0}
  ELSE {healthy[1]}

\* "if proxy_url in self.proxies": self.proxies after the test, which adds
\* no record for a proxy_url that is not a key
LookedUpWithDefault(proxies, url) ==
  IF url \in DOMAIN proxies THEN proxies ELSE Append(proxies, NewProxyInfo)
LookedUp(proxies, url) == proxies

\* record_failure: proxy.failure_count += 1; proxy.total_requests += 1
CountedFailureUntotalled(info) == [info EXCEPT !.failure_count = @ + 1]
CountedFailure(info) ==
  [info EXCEPT !.failure_count = @ + 1, !.total_requests = @ + 1]

\* record_success: alpha * response_time + (1 - alpha) * avg_response_time
\* with alpha = 0.2, the average in units of 1/AvgUnit second, time in seconds
MovingAverageSwapped(avg, time) == (4 * time * AvgUnit + avg) \div 5
MovingAverage(avg, time) == (time * AvgUnit + 4 * avg) \div 5

\* record_success: "Reset to healthy if it was degraded"
HealthOnSuccessAlways(info) == HEALTHY
HealthOnSuccess(info) ==
  IF info.health = DEGRADED THEN HEALTHY ELSE info.health

\* record_failure: "Update health status", info being the proxy's record
\* with its counters already increased
HealthOnFailureByCountOnly(info) ==
  IF info.failure_count >= pm_max_failures THEN FAILED ELSE info.health
HealthOnFailure(info) ==
  IF info.failure_count >= pm_max_failures THEN FAILED
  ELSE IF 2 * info.success_count < info.total_requests THEN DEGRADED
  ELSE info.health

\* ProxyManager(proxies, rotation_strategy, ..., max_failures), the pool's
\* size, the strategy and max_failures being among sizes, strategies and
\* thresholds
Construct(sizes, strategies, thresholds) ==
  /\ pm_ev.op = "new"
  /\ pm_pool' \in sizes
  /\ pm_strategy' \in strategies
  /\ pm_max_failures' \in thresholds
  /\ pm_proxies' = [i \in 1..pm_pool' |-> NewProxyInfo]
  /\ pm_ev' = [pm_ev EXCEPT !.op = "init"]
  /\ UNCHANGED pm_index

Configure == Construct(PoolSizes, Strategies, 1..MaxFailures)

PMConfigure == Configure /\ PMFrame

\* get_proxy()
GetProxy ==
  /\ pm_ev.op # "new"
  /\ LET healthy == Eligible(pm_proxies) IN
     IF healthy = <<>>
       THEN /\ pm_ev' = [op |-> "get_proxy", proxy |-> NoProxy, ret |-> NoProxy,
                         probe |-> FALSE]
            /\ UNCHANGED pm_index
       ELSE /\ \E i \in Selection(healthy) :
                 pm_ev' = [op |-> "get_proxy", proxy |-> NoProxy, ret |-> i,
                           probe |-> FALSE]
            /\ pm_index' = IF pm_strategy = "round_robin"
                             THEN (pm_index + 1) % IndexModulus
                             ELSE pm_index
  /\ UNCHANGED <<pm_pool, pm_strategy, pm_max_failures, pm_proxies>>

PMGetProxy == GetProxy /\ PMFrame

\* record_success(proxy_url, response_time), called for a request or, when
\* probe, by _check_proxy after a health check that passed
RecordSuccess(url, time, probe) ==
  /\ pm_ev.op # "new"
  /\ LET proxies == LookedUp(pm_proxies, url) IN
     IF url \in DOMAIN proxies
       THEN /\ proxies[url].total_requests < MaxRequests
            /\ LET counted ==
                     [proxies[url] EXCEPT
                        !.success_count = @ + 1,
                        !.total_requests = @ + 1,
                        !.avg_response_time = MovingAverage(@, time)]
               IN  pm_proxies' =
                     [proxies EXCEPT
                        ![url] = [counted EXCEPT !.health = HealthOnSuccess(counted)]]
       ELSE UNCHANGED pm_proxies
  /\ pm_ev' = [op |-> "record_success", proxy |-> url, ret |-> NoProxy,
               probe |-> probe]
  /\ UNCHANGED <<pm_pool, pm_strategy, pm_max_failures, pm_index>>

PMRecordSuccess(url, time, probe) == RecordSuccess(url, time, probe) /\ PMFrame

\* record_failure(proxy_url), called for a request or, when probe, by
\* _check_proxy after a health check that failed
RecordFailure(url, probe) ==
  /\ pm_ev.op # "new"
  /\ LET proxies == LookedUp(pm_proxies, url) IN
     IF url \in DOMAIN proxies
       THEN /\ proxies[url].total_requests < MaxRequests
            /\ LET counted == CountedFailure(proxies[url])
               IN  pm_proxies' =
                     [proxies EXCEPT
                        ![url] = [counted EXCEPT !.health = HealthOnFailure(counted)]]
       ELSE UNCHANGED pm_proxies
  /\ pm_ev' = [op |-> "record_failure", proxy |-> url, ret |-> NoProxy,
               probe |-> probe]
  /\ UNCHANGED <<pm_pool, pm_strategy, pm_max_failures, pm_index>>

PMRecordFailure(url, probe) == RecordFailure(url, probe) /\ PMFrame

(* ===================== ProxyManager round robin ======================= *)
(* get_proxy with rotation_strategy "round_robin" on a pool of three,     *)
(* with the proxies that consecutive calls returned.                      *)
RoundRobinPool == 3
RoundRobinThresholds == {1, 2}   \* ProxyManager(max_failures = 1 or 2)
RoundRobinRequests == 2          \* requests recorded per proxy at most

InitRoundRobin == rr_served = <<>>

\* the last n elements of the sequence q
LastOf(q, n) ==
  IF Len(q) <= n THEN q ELSE SubSeq(q, Len(q) - n + 1, Len(q))

\* the calls served so far count as consecutive calls on one eligible set
\* as long as recording leaves that set as it is
ServedAfterRecord ==
  rr_served' = IF Eligible(pm_proxies') = Eligible(pm_proxies)
                 THEN rr_served ELSE <<>>

\* ProxyManager(proxies, rotation_strategy="round_robin")
RRConfigure ==
  /\ Construct({RoundRobinPool}, {"round_robin"}, RoundRobinThresholds)
  /\ UNCHANGED rr_served
  /\ RRFrame

\* get_proxy()
RRGetProxy ==
  /\ GetProxy
  /\ rr_served' = IF pm_ev'.ret = NoProxy
                    THEN <<>>
                    ELSE LastOf(Append(rr_served, pm_ev'.ret),
                                Len(Eligible(pm_proxies)))
  /\ RRFrame

\* record_success(proxy_url, response_time)
RRRecordSuccess(url, time) ==
  /\ url \in Pool => pm_proxies[url].total_requests < RoundRobinRequests
  /\ RecordSuccess(url, time, FALSE)
  /\ ServedAfterRecord
  /\ RRFrame

\* record_failure(proxy_url)
RRRecordFailure(url) ==
  /\ url \in Pool => pm_proxies[url].total_requests < RoundRobinRequests
  /\ RecordFailure(url, FALSE)
  /\ ServedAfterRecord
  /\ RRFrame

(* ===================== ProxyManager health checks ===================== *)
(* start_health_checks, stop_health_checks, _health_check_loop,           *)
(* _check_all_proxies and _check_proxy.  Coroutines run on one event      *)
(* loop: a step of the model is what a coroutine does between two         *)
(* suspensions.  cancel() marks a task, and through asyncio.gather the    *)
(* probes of its round; each of them ends at its next step without        *)
(* running the code after its await.                                      *)

\* tasks that asyncio.create_task(self._health_check_loop()) can create
MaxTasks == 3
Tasks == 1..MaxTasks
NoTask == 0

\* rounds of probes that the loops run in all
MaxRounds == 2

\* callers of stop_health_checks
Callers == {1, 2}

\* how the request of one probe ends: the response passes raise_for_status,
\* raise_for_status raises for the status, or the request itself raises
ProbeOutcomes == {"passed", "failed", "raised"}

\* `except Exception` of _check_proxy: what it turns into a record_failure
CaughtByCheckStatusOnly(outcome) == outcome = "failed"
CaughtByCheck(outcome) == outcome \in {"failed", "raised"}

InitHealthCheck ==
  /\ hc_task = NoTask
  /\ hc_loops = [t \in Tasks |-> [st |-> "none", cancel |-> FALSE]]
  /\ hc_probes = [t \in Tasks |-> <<>>]
  /\ hc_callers = [c \in Callers |-> NoTask]
  /\ hc_rounds = 0
  /\ hc_ev = [op |-> "new", task |-> NoTask, proxy |-> NoProxy,
              outcome |-> "none"]

HCEvent(op, t, p, outcome) ==
  [op |-> op, task |-> t, proxy |-> p, outcome |-> outcome]

Live(t) == hc_loops[t].st \in {"sleep", "check"}
Finished(t) == \A p \in DOMAIN hc_probes[t] : hc_probes[t][p] # "running"

\* ProxyManager(...) of the manager whose health checks run
HCConfigure ==
  /\ Configure
  /\ pm_strategy' = "round_robin"
  /\ UNCHANGED hc_vars
  /\ HCFrame

\* start_health_checks(): no suspension between the test and the assignment
HCStart ==
  /\ pm_ev.op # "new"
  /\ IF hc_task = NoTask
       THEN /\ \E t \in Tasks :
                 /\ hc_loops[t].st = "none"
                 /\ \A u \in Tasks : u < t => hc_loops[u].st # "none"
                 /\ hc_task' = t
                 /\ hc_loops' = [hc_loops EXCEPT ![t].st = "sleep"]
                 /\ hc_ev' = HCEvent("start", t, NoProxy, "none")
       ELSE /\ hc_ev' = HCEvent("start", NoTask, NoProxy, "none")
            /\ UNCHANGED <<hc_task, hc_loops>>
  /\ UNCHANGED <<hc_probes, hc_callers, hc_rounds, pm_vars>>
  /\ HCFrame

\* stop_health_checks() up to its await: cancel() and the await of the task,
\* which does not suspend when the task is already done
HCStop(c) ==
  /\ pm_ev.op # "new"
  /\ hc_callers[c] = NoTask
  /\ IF hc_task = NoTask
       THEN /\ hc_ev' = HCEvent("stop_return", NoTask, NoProxy, "none")
            /\ UNCHANGED <<hc_task, hc_loops, hc_callers>>
       ELSE IF hc_loops[hc_task].st = "done"
         THEN /\ hc_task' = NoTask
              /\ hc_ev' = HCEvent("stop_return", hc_task, NoProxy, "none")
              /\ UNCHANGED <<hc_loops, hc_callers>>
         ELSE /\ hc_loops' = [hc_loops EXCEPT ![hc_task].cancel = TRUE]
              /\ hc_callers' = [hc_callers EXCEPT ![c] = hc_task]
              /\ hc_ev' = HCEvent("stop_call", hc_task, NoProxy, "none")
              /\ UNCHANGED hc_task
  /\ UNCHANGED <<hc_probes, hc_rounds, pm_vars>>
  /\ HCFrame

\* stop_health_checks() after its await: the awaited task is done
HCStopReturn(c) ==
  /\ hc_callers[c] # NoTask
  /\ hc_loops[hc_callers[c]].st = "done"
  /\ hc_task' = NoTask
  /\ hc_callers' = [hc_callers EXCEPT ![c] = NoTask]
  /\ hc_ev' = HCEvent("stop_return", hc_callers[c], NoProxy, "none")
  /\ UNCHANGED <<hc_loops, hc_probes, hc_rounds, pm_vars>>
  /\ HCFrame

\* _health_check_loop: asyncio.sleep is over and _check_all_proxies gathers
\* one _check_proxy per proxy of self.proxies
HCWake(t) ==
  /\ hc_loops[t].st = "sleep"
  /\ ~hc_loops[t].cancel
  /\ hc_rounds < MaxRounds
  /\ hc_rounds' = hc_rounds + 1
  /\ IF Pool = {}
       THEN UNCHANGED <<hc_loops, hc_probes>>
       ELSE /\ hc_loops' = [hc_loops EXCEPT ![t].st = "check"]
            /\ hc_probes' = [hc_probes EXCEPT ![t] = [p \in Pool |-> "running"]]
  /\ hc_ev' = HCEvent("wake", t, NoProxy, "none")
  /\ UNCHANGED <<hc_task, hc_callers, pm_vars>>
  /\ HCFrame

\* _check_proxy(proxy_url): the request ends and the probe records it
HCProbe(t, p, outcome) ==
  /\ hc_loops[t].st = "check"
  /\ ~hc_loops[t].cancel
  /\ p \in DOMAIN hc_probes[t]
  /\ hc_probes[t][p] = "running"
  /\ IF outcome = "passed"
       THEN /\ \E time \in ResponseTimes : RecordSuccess(p, time, TRUE)
            /\ hc_probes' = [hc_probes EXCEPT ![t][p] = "recorded"]
       ELSE IF CaughtByCheck(outcome)
         THEN /\ RecordFailure(p, TRUE)
              /\ hc_probes' = [hc_probes EXCEPT ![t][p] = "recorded"]
         ELSE /\ hc_probes' = [hc_probes EXCEPT ![t][p] = "escaped"]
              /\ UNCHANGED pm_vars
  /\ hc_ev' = HCEvent("probe", t, p, outcome)
  /\ UNCHANGED <<hc_task, hc_loops, hc_callers, hc_rounds>>
  /\ HCFrame

\* asyncio.gather(*tasks, return_exceptions=True) returns once every probe
\* has ended, and the loop goes back to asyncio.sleep
HCRoundEnd(t) ==
  /\ hc_loops[t].st = "check"
  /\ ~hc_loops[t].cancel
  /\ Finished(t)
  /\ hc_loops' = [hc_loops EXCEPT ![t].st = "sleep"]
  /\ hc_probes' = [hc_probes EXCEPT ![t] = <<>>]
  /\ hc_ev' = HCEvent("round_end", t, NoProxy, "none")
  /\ UNCHANGED <<hc_task, hc_callers, hc_rounds, pm_vars>>
  /\ HCFrame

\* a probe of a cancelled round ends by CancelledError, which the
\* `except Exception` of _check_proxy does not catch
HCCancelProbe(t, p) ==
  /\ hc_loops[t].st = "check"
  /\ hc_loops[t].cancel
  /\ p \in DOMAIN hc_probes[t]
  /\ hc_probes[t][p] = "running"
  /\ hc_probes' = [hc_probes EXCEPT ![t][p] = "cancelled"]
  /\ hc_ev' = HCEvent("cancel_probe", t, p, "none")
  /\ UNCHANGED <<hc_task, hc_loops, hc_callers, hc_rounds, pm_vars>>
  /\ HCFrame

\* _health_check_loop: `except asyncio.CancelledError: break`, from the sleep
\* or from the gather once its probes have ended
HCLoopExit(t) ==
  /\ Live(t)
  /\ hc_loops[t].cancel
  /\ Finished(t)
  /\ hc_loops' = [hc_loops EXCEPT ![t].st = "done"]
  /\ hc_probes' = [hc_probes EXCEPT ![t] = <<>>]
  /\ hc_ev' = HCEvent("exit", t, NoProxy, "none")
  /\ UNCHANGED <<hc_task, hc_callers, hc_rounds, pm_vars>>
  /\ HCFrame

(* ================= UserAgentManager, HeaderGenerator ================== *)
(* A header set is a function from header names to values; a value, like  *)
(* a URL, is a sequence of pieces of text, its concatenation being the     *)
(* string.                                                                 *)

\* UserAgentManager.USER_AGENTS, shortened to its first two entries
UserAgents == <<"Chrome/120.0.0.0", "Chrome/119.0.0.0">>

\* target URLs: with a path, with a query, with a port and no path, without
\* a scheme
TargetUrls ==
  { <<"https", "://", "a.com", "/x">>,
    <<"https", "://", "a.com", "/x", "?q=1">>,
    <<"http", "://", "b.org:8080">>,
    <<"a.com", "/x">> }

\* names of caller-supplied headers, and the value the caller gives them
CustomNames == {"Referer", "User-Agent", "X-Trace"}
CustomValue == <<"custom">>

\* custom_headers: None, or a dict (possibly empty) of caller's headers
NoHeaders == [given |-> FALSE, dict |-> [k \in {} |-> CustomValue]]
CustomHeaders ==
  {NoHeaders} \cup
    {[given |-> TRUE, dict |-> [k \in names |-> CustomValue]] :
       names \in SUBSET CustomNames}

\* truth value of custom_headers: None and the empty dict are false
Truthy(custom) == custom.given /\ DOMAIN custom.dict # {}

\* urllib.parse.urlparse(url): scheme and netloc
UrlParse(url) ==
  IF Len(url) >= 2 /\ url[2] = "://"
    THEN [scheme |-> url[1], netloc |-> IF Len(url) >= 3 THEN url[3] ELSE ""]
    ELSE [scheme |-> "", netloc |-> ""]

\* f"{parsed.scheme}://{parsed.netloc}/"
Origin(url) == <<UrlParse(url).scheme, "://", UrlParse(url).netloc, "/">>

\* the dict literal of generate
DefaultHeaders(ua) ==
  [k \in {"User-Agent", "Accept", "Accept-Language", "Accept-Encoding", "DNT",
          "Connection", "Upgrade-Insecure-Requests", "Sec-Fetch-Dest",
          "Sec-Fetch-Mode", "Sec-Fetch-Site", "Cache-Control"} |->
     CASE k = "User-Agent" -> <<ua>>
       [] k = "Accept" ->
            <<"text/html,application/xhtml+xml,application/xml;q=0.9,image/webp,*/*;q=0.8">>
       [] k = "Accept-Language" -> <<"en-US,en;q=0.9">>
       [] k = "Accept-Encoding" -> <<"gzip, deflate, br">>
       [] k = "DNT" -> <<"1">>
       [] k = "Connection" -> <<"keep-alive">>
       [] k = "Upgrade-Insecure-Requests" -> <<"1">>
       [] k = "Sec-Fetch-Dest" -> <<"document">>
       [] k = "Sec-Fetch-Mode" -> <<"navigate">>
       [] k = "Sec-Fetch-Site" -> <<"none">>
       [] k = "Cache-Control" -> <<"max-age=0">>]

\* headers[name] = value
WithHeader(headers, name, value) ==
  [k \in DOMAIN headers \cup {name} |-> IF k = name THEN value ELSE headers[k]]

\* headers.update(dict)
Update(headers, dict) ==
  [k \in DOMAIN headers \cup DOMAIN dict |->
     IF k \in DOMAIN dict THEN dict[k] ELSE headers[k]]

\* HeaderGenerator.generate(url, custom_headers), given the user agent
Generate(ua, url, custom) ==
  LET headers == DefaultHeaders(ua)
      referred == IF Truthy(custom) /\ "Referer" \notin DOMAIN custom.dict
                    THEN WithHeader(headers, "Referer", Origin(url))
                    ELSE headers
  IN  IF Truthy(custom) THEN Update(referred, custom.dict) ELSE referred

InitHeaderGenerator ==
  /\ hg_strategy = "random"
  /\ hg_index = 0
  /\ hg_ev = [op |-> "new", url |-> <<>>, custom |-> NoHeaders,
              headers |-> [k \in {} |-> CustomValue]]

\* UserAgentManager(rotation_strategy), HeaderGenerator(user_agent_manager)
HGConfigure ==
  /\ hg_ev.op = "new"
  /\ hg_strategy' \in {"random", "round_robin"}
  /\ hg_ev' = [hg_ev EXCEPT !.op = "init"]
  /\ UNCHANGED hg_index
  /\ HGFrame

\* generate(url, custom_headers), with the UserAgentManager.get() it makes
HGGenerate(url, custom) ==
  /\ hg_ev.op # "new"
  /\ \E i \in 1..Len(UserAgents) :
       /\ hg_strategy = "round_robin" => i = hg_index + 1
       /\ hg_ev' = [op |-> "generate", url |-> url, custom |-> custom,
                    headers |-> Generate(UserAgents[i], url, custom)]
  /\ hg_index' = IF hg_strategy = "round_robin"
                   THEN (hg_index + 1) % Len(UserAgents)
                   ELSE hg_index
  /\ UNCHANGED hg_strategy
  /\ HGFrame

(* ======================= locks of the resources ======================= *)
(* The asyncio.Lock objects of the module and the order in which each     *)
(* operation enters and leaves their "async with" blocks, whatever the     *)
(* data.  "suspend" is an await under which the task keeps what it holds.  *)
Locks ==
  { "RateLimiter",           \* rate_limiter.py:63, a bucket of its own
    "DomainRateLimiter",     \* rate_limiter.py:122, the dict of buckets
    "DomainBucket",          \* rate_limiter.py:63, the bucket of a domain
    "AdaptiveRateLimiter",   \* rate_limiter.py:400
    "AdaptiveBucket",        \* rate_limiter.py:63, AdaptiveRateLimiter._limiter
    "CircuitBreaker",        \* rate_limiter.py:286
    "LRUCache",              \* cache.py:62
    "ProxyManager" }         \* proxy_manager.py:97

Enter(lock) == <<[e |-> "enter", lock |-> lock]>>
Leave(lock) == <<[e |-> "leave", lock |-> lock]>>
Suspend == <<[e |-> "suspend", lock |-> "none"]>>

\* RateLimiter.acquire on the bucket with the given lock: the sleep is inside
\* the "async with"
BucketAcquire(lock) == Enter(lock) \o Suspend \o Leave(lock)

\* DomainRateLimiter.acquire: the dict's lock is left before the bucket's
\* acquire is awaited
DomainAcquireNested ==
  Enter("DomainRateLimiter") \o BucketAcquire("DomainBucket")
    \o Leave("DomainRateLimiter")
DomainAcquire ==
  Enter("DomainRateLimiter") \o Leave("DomainRateLimiter")
    \o BucketAcquire("DomainBucket")

\* the operations that call no other operation
Simple ==
  { "RateLimiter.acquire", "DomainRateLimiter.acquire",
    "AdaptiveRateLimiter.acquire", "AdaptiveRateLimiter.on_success",
    "AdaptiveRateLimiter.on_error", "LRUCache.set", "TieredCache.get",
    "ProxyManager.record_failure", "ProxyManager._check_proxy" }

SimplePlan(op) ==
  CASE op = "RateLimiter.acquire" -> BucketAcquire("RateLimiter")
    [] op = "DomainRateLimiter.acquire" -> DomainAcquire
    [] op = "AdaptiveRateLimiter.acquire" -> BucketAcquire("AdaptiveBucket")
    [] op = "AdaptiveRateLimiter.on_success" ->
         Enter("AdaptiveRateLimiter") \o Leave("AdaptiveRateLimiter")
    [] op = "AdaptiveRateLimiter.on_error" ->
         Enter("AdaptiveRateLimiter") \o Leave("AdaptiveRateLimiter")
    [] op = "LRUCache.set" -> Enter("LRUCache") \o Leave("LRUCache")
    [] op = "TieredCache.get" ->
         Enter("LRUCache") \o Leave("LRUCache") \o Suspend
           \o Enter("LRUCache") \o Leave("LRUCache")
    [] op = "ProxyManager.record_failure" ->
         Enter("ProxyManager") \o Leave("ProxyManager")
    [] op = "ProxyManager._check_proxy" ->
         Suspend \o Enter("ProxyManager") \o Leave("ProxyManager")

\* CircuitBreaker.call(func): the state check under the lock, func outside
\* it, then _on_success or _on_failure under the lock again
BreakerCall(plan) ==
  Enter("CircuitBreaker") \o Leave("CircuitBreaker") \o plan
    \o Enter("CircuitBreaker") \o Leave("CircuitBreaker")

\* RetryHandler.execute(func): func, the backoff sleep, func again
RetryExecute(plan) == plan \o Suspend \o plan

\* what tasks run: an operation, an operation under a breaker, or either of
\* them under a retry handler
Plans ==
  LET simple == {SimplePlan(op) : op \in Simple}
      guarded == {BreakerCall(plan) : plan \in simple}
  IN  simple \cup guarded
        \cup {RetryExecute(BreakerCall(SimplePlan("RateLimiter.acquire"))),
              RetryExecute(SimplePlan("LRUCache.set"))}

InitLocks ==
  /\ lk_owner = [l \in Locks |-> NoProc]
  /\ lk_todo = [p \in Procs |-> <<>>]
  /\ lk_ev = [op |-> "new", proc |-> NoProc]

Holds(p) == {l \in Locks : lk_owner[l] = p}

\* a task starts an operation
LKCall(p) ==
  /\ lk_todo[p] = <<>>
  /\ \E plan \in Plans : lk_todo' = [lk_todo EXCEPT ![p] = plan]
  /\ lk_ev' = [op |-> "call", proc |-> p]
  /\ UNCHANGED lk_owner
  /\ LKFrame

\* async with self._lock: the task goes on once the lock is free
LKEnter(p) ==
  /\ lk_todo[p] # <<>>
  /\ Head(lk_todo[p]).e = "enter"
  /\ lk_owner[Head(lk_todo[p]).lock] = NoProc
  /\ lk_owner' = [lk_owner EXCEPT ![Head(lk_todo[p]).lock] = p]
  /\ lk_todo' = [lk_todo EXCEPT ![p] = Tail(@)]
  /\ lk_ev' = [op |-> "enter", proc |-> p]
  /\ LKFrame

\* the end of the "async with" block
LKLeave(p) ==
  /\ lk_todo[p] # <<>>
  /\ Head(lk_todo[p]).e = "leave"
  /\ lk_owner' = [lk_owner EXCEPT ![Head(lk_todo[p]).lock] = NoProc]
  /\ lk_todo' = [lk_todo EXCEPT ![p] = Tail(@)]
  /\ lk_ev' = [op |-> "leave", proc |-> p]
  /\ LKFrame

\* an await that is over
LKResume(p) ==
  /\ lk_todo[p] # <<>>
  /\ Head(lk_todo[p]).e = "suspend"
  /\ lk_todo' = [lk_todo EXCEPT ![p] = Tail(@)]
  /\ lk_ev' = [op |-> "resume", proc |-> p]
  /\ UNCHANGED lk_owner
  /\ LKFrame

(* ========================== specifications ============================ *)
Init ==
  /\ InitRateLimiter /\ InitCircuitBreaker /\ InitRetryHandler
  /\ InitLRUCache /\ InitTieredCache /\ InitProxyManager
  /\ InitHealthCheck
  /\ InitHeaderGenerator
  /\ InitDomainRateLimiter
  /\ InitAdaptiveRateLimiter
  /\ InitResponseCache
  /\ InitLocks
  /\ InitRoundRobin

NextRateLimiter ==
  \/ \E p \in Procs : RLCall(p)
  \/ \E p \in Procs : RLLock(p)
  \/ \E p \in Procs : RLIterate(p)
  \/ \E p \in Procs : RLWake(p)
  \/ RLTick

SpecRateLimiter == Init /\ [][NextRateLimiter]_vars

\* the event loop runs every ready task and the clock advances; nothing
\* obliges a caller to call
FairRateLimiter ==
  /\ WF_vars(RLTick)
  /\ \A p \in Procs : /\ WF_vars(RLLock(p))
                      /\ WF_vars(RLIterate(p))
                      /\ WF_vars(RLWake(p))

SpecRateLimiterFair == SpecRateLimiter /\ FairRateLimiter

NextDomainRateLimiter ==
  \/ \E p \in Procs, d \in Domains : DLCall(p, d)
  \/ \E p \in Procs : DLLock(p)
  \/ \E p \in Procs : DLIterate(p)
  \/ \E p \in Procs : DLWake(p)
  \/ DLTick

SpecDomainRateLimiter == Init /\ [][NextDomainRateLimiter]_vars

NextAdaptiveRateLimiter ==
  \/ ALConfigure
  \/ ALAcquire
  \/ ALOnSuccess
  \/ \E op \in {"on_rate_limit", "on_error"} : ALOnRateLimit(op)
  \/ ALWake
  \/ ALTick

SpecAdaptiveRateLimiter == Init /\ [][NextAdaptiveRateLimiter]_vars

NextCircuitBreaker ==
  \/ \E p \in Procs : CBCall(p)
  \/ \E p \in Procs : CBSucceed(p)
  \/ \E p \in Procs : CBFail(p)
  \/ \E p \in Procs : CBOther(p)
  \/ CBTick

SpecCircuitBreaker == Init /\ [][NextCircuitBreaker]_vars

NextRetryHandler ==
  \/ RTConfigure
  \/ RTExecute
  \/ \E o \in Outcomes : RTInvoke(o)
  \/ RTWake

SpecRetryHandler == Init /\ [][NextRetryHandler]_vars

NextLRUCache ==
  \/ LCConfigure
  \/ \E k \in Keys : LCGet(k)
  \/ \E k \in Keys, v \in Values, t \in TtlArgs : LCSet(k, v, t)
  \/ \E k \in Keys : LCDelete(k)
  \/ LCClear
  \/ LCCleanupExpired
  \/ LCTick

SpecLRUCache == Init /\ [][NextLRUCache]_vars

NextResponseCache ==
  \E request \in MakeKeyRequests : MKMakeKey(request)

SpecResponseCache == Init /\ [][NextResponseCache]_vars

NextTieredCache ==
  \/ TCConfigure
  \/ \E k \in TierKeys : TCGet(k)
  \/ \E k \in TierKeys, v \in Values, t \in TtlArgs : TCSet(k, v, t)
  \/ \E tier \in {2, 3}, k \in SharedKeys, v \in Values : TCStorePut(tier, k, v)
  \/ TCTick

SpecTieredCache == Init /\ [][NextTieredCache]_vars

NextProxyManager ==
  \/ PMConfigure
  \/ PMGetProxy
  \/ \E url \in Urls, time \in ResponseTimes, probe \in BOOLEAN :
       PMRecordSuccess(url, time, probe)
  \/ \E url \in Urls, probe \in BOOLEAN : PMRecordFailure(url, probe)

SpecProxyManager == Init /\ [][NextProxyManager]_vars

NextRoundRobin ==
  \/ RRConfigure
  \/ RRGetProxy
  \/ \E url \in Urls, time \in ResponseTimes : RRRecordSuccess(url, time)
  \/ \E url \in Urls : RRRecordFailure(url)

SpecRoundRobin == Init /\ [][NextRoundRobin]_vars

NextHealthCheck ==
  \/ HCConfigure
  \/ HCStart
  \/ \E c \in Callers : HCStop(c)
  \/ \E c \in Callers : HCStopReturn(c)
  \/ \E t \in Tasks : HCWake(t)
  \/ \E t \in Tasks, p \in Pool, outcome \in ProbeOutcomes : HCProbe(t, p, outcome)
  \/ \E t \in Tasks : HCRoundEnd(t)
  \/ \E t \in Tasks, p \in Pool : HCCancelProbe(t, p)
  \/ \E t \in Tasks : HCLoopExit(t)

SpecHealthCheck == Init /\ [][NextHealthCheck]_vars

\* the event loop runs every task that is ready, asyncio.sleep ends, and a
\* probe's request ends by its timeout at the latest
FairHealthCheck ==
  \A t \in Tasks :
    /\ WF_vars(HCWake(t))
    /\ WF_vars(HCRoundEnd(t))
    /\ WF_vars(HCLoopExit(t))
    /\ \A p \in 1..2 :
         /\ WF_vars(\E outcome \in ProbeOutcomes : HCProbe(t, p, outcome))
         /\ WF_vars(HCCancelProbe(t, p))

\* the health-check loop with a single caller of stop_health_checks
NextHealthCheckLoop ==
  \/ HCConfigure
  \/ HCStart
  \/ HCStop(1)
  \/ HCStopReturn(1)
  \/ \E t \in Tasks : HCWake(t)
  \/ \E t \in Tasks, p \in Pool, outcome \in ProbeOutcomes : HCProbe(t, p, outcome)
  \/ \E t \in Tasks : HCRoundEnd(t)
  \/ \E t \in Tasks, p \in Pool : HCCancelProbe(t, p)
  \/ \E t \in Tasks : HCLoopExit(t)

SpecHealthCheckLoop == Init /\ [][NextHealthCheckLoop]_vars /\ FairHealthCheck

NextHeaderGenerator ==
  \/ HGConfigure
  \/ \E url \in TargetUrls, custom \in CustomHeaders : HGGenerate(url, custom)

SpecHeaderGenerator == Init /\ [][NextHeaderGenerator]_vars

NextLocks ==
  \/ \E p \in Procs : LKCall(p)
  \/ \E p \in Procs : LKEnter(p)
  \/ \E p \in Procs : LKLeave(p)
  \/ \E p \in Procs : LKResume(p)

SpecLocks == Init /\ [][NextLocks]_vars

(* ------------------------------- C1 ----------------------------------- *)
\* C1: for every interleaving of concurrent acquires, the permits granted in
\* any time window of length W are at most rate*W + burst: over all windows
\* that end now, permits - rate*W is at most burst.
C1_WindowBound == rl_excess <= BurstUnits

\* the bound is met with equality over a window of at least one tick: the
\* last grant went to a caller that had slept for it, while another caller is
\* queued on the lock
C1_Witness ==
  /\ rl_excess = BurstUnits
  /\ rl_owner = NoProc /\ rl_slept
  /\ \E p \in Procs : rl_pc[p] = "lock"

(* ------------------------------- C2 ----------------------------------- *)
\* C2: in every reachable state, 0 <= tokens <= burst.
C2_TokensInRange == 0 <= rl_tokens /\ rl_tokens <= BurstUnits

\* the bucket was drained to exactly 0 by a caller that had to sleep for its
\* tokens, while another caller waits
C2_Witness ==
  /\ rl_tokens = 0
  /\ rl_owner = NoProc /\ rl_slept
  /\ \E q \in Procs : rl_pc[q] = "lock"

(* ------------------------------- C3 ----------------------------------- *)
\* the callers served before p: the holder of the lock and the waiters queued
\* in front of p (p itself included)
Before(p) ==
  (IF rl_owner = NoProc THEN {} ELSE {rl_owner}) \cup
  {rl_waiters[i] : i \in {j \in 1..Len(rl_waiters) :
                            \E k \in j..Len(rl_waiters) : rl_waiters[k] = p}}

\* C3 as stated: every acquire(n) with 1 <= n <= burst eventually returns,
\* whatever the concurrent acquirers ask for.
C3_Original ==
  \A p \in Procs :
    (rl_pc[p] # "idle" /\ rl_req[p] <= Burst) ~> (rl_pc[p] = "idle")

\* C3 amended: an acquire(n) with 1 <= n <= burst eventually returns, having
\* deducted exactly n tokens from the refilled bucket, provided no acquire
\* served before it on that bucket asks for more than burst tokens.
C3_EventuallyReturns ==
  /\ \A p \in Procs :
       (rl_pc[p] # "idle" /\ \A q \in Before(p) : rl_req[q] <= Burst)
         ~> (rl_pc[p] = "idle")
  /\ [][\A p \in Procs :
          (rl_pc[p] # "idle" /\ rl_pc'[p] = "idle") =>
            rl_tokens' + rl_req[p] * RateDen
              = Min(BurstUnits, rl_tokens + rl_elapsed * RateNum)]_vars

\* a caller that had to sleep for its tokens has returned, and the caller
\* queued behind it, which asks for the whole burst, is next
C3_Witness ==
  /\ rl_owner = NoProc /\ rl_slept
  /\ \E p, q \in Procs :
       /\ rl_pc[p] = "idle"
       /\ rl_pc[q] = "lock" /\ rl_req[q] = Burst

(* ------------------------------- C4 ----------------------------------- *)
\* C4: while the breaker is Open and less than recovery_timeout has elapsed
\* since the last recorded failure, every call is rejected with the
\* breaker-open error and no caller enters the wrapped operation, whatever
\* calls are in flight.
C4_RejectsWhileOpen ==
  [][(cb_state = OPEN /\ cb_since < RecoveryTimeout) =>
       /\ \A p \in Procs : cb_pc'[p] = "running" => cb_pc[p] = "running"
       /\ cb_ev'.op \in {"admit", "reject"} =>
            cb_ev'.op = "reject" /\ cb_state' = OPEN]_vars

\* a call was just rejected while another call, admitted earlier, is in flight
C4_Witness ==
  /\ cb_ev = [op |-> "reject", pre |-> OPEN]
  /\ cb_state = OPEN /\ cb_since < RecoveryTimeout
  /\ \E p \in Procs : cb_pc[p] = "running"

(* ------------------------------- C5 ----------------------------------- *)
\* C5: from a Closed breaker, a run of failures with no success between them
\* opens the breaker exactly on the failure_threshold-th failure of the run:
\* a Closed breaker has seen fewer, and a failure recorded in Closed opens it
\* if and only if it is the failure_threshold-th in a row.
C5_OpensAtThreshold ==
  /\ [](cb_state = CLOSED => cb_streak < FailureThreshold)
  /\ [][(cb_state = CLOSED /\ cb_ev'.op = "failure") =>
          (cb_state' = OPEN <=> cb_streak' = FailureThreshold)]_vars

C5_Witness ==
  /\ cb_ev = [op |-> "failure", pre |-> CLOSED]
  /\ cb_state = OPEN
  /\ cb_streak = FailureThreshold

(* ------------------------------- C6 ----------------------------------- *)
\* C6: the breaker goes from HalfOpen to Closed only when two successes have
\* been recorded in HalfOpen since it last entered HalfOpen (a failure in
\* HalfOpen ends the episode, so none lies between them).
C6_ClosesAfterTwoSuccesses ==
  [][(cb_state = HALF_OPEN /\ cb_state' = CLOSED) =>
       cb_episode' >= SuccessesToClose]_vars

(* ------------------------------- C7 ----------------------------------- *)
\* C7: with the breaker Open and recovery_timeout elapsed since the last
\* recorded failure, a call moves it to HalfOpen and enters the wrapped
\* operation instead of being rejected; and the breaker goes from Open to
\* HalfOpen in no other step.
C7_HalfOpenByCallOnly ==
  [][/\ (cb_state = OPEN /\ cb_since >= RecoveryTimeout
           /\ cb_ev'.op \in {"admit", "reject"}) =>
          /\ cb_ev'.op = "admit"
          /\ cb_state' = HALF_OPEN
          /\ \E p \in Procs : cb_pc[p] = "idle" /\ cb_pc'[p] = "running"
     /\ (cb_state = OPEN /\ cb_state' = HALF_OPEN) =>
          /\ cb_since >= RecoveryTimeout
          /\ cb_ev'.op = "admit"]_vars

C7_Witness ==
  /\ cb_ev = [op |-> "admit", pre |-> OPEN]
  /\ cb_state = HALF_OPEN
  /\ cb_since = RecoveryTimeout
  /\ \E p \in Procs : cb_pc[p] = "running"

(* ------------------------------- C8 ----------------------------------- *)
\* C8: a failure recorded while the breaker is HalfOpen moves it to Open,
\* whatever the failure count is.
C8_HalfOpenFailureOpens ==
  [][(cb_state = HALF_OPEN /\ cb_ev'.op = "failure") => cb_state' = OPEN]_vars

\* the failure count was back at 0 (a success in HalfOpen) when the failure came
C8_Witness ==
  /\ cb_ev = [op |-> "failure", pre |-> HALF_OPEN]
  /\ cb_state = OPEN
  /\ cb_failure_count < FailureThreshold

(* ------------------------------- C9 ----------------------------------- *)
\* C9: a success recorded while the breaker is Closed leaves it Closed with
\* failure count 0; and as long as no run of failure_threshold failures in a
\* row has occurred, the breaker is Closed.
C9_SuccessResets ==
  /\ [][(cb_state = CLOSED /\ cb_ev'.op = "success") =>
          (cb_state' = CLOSED /\ cb_failure_count' = 0)]_vars
  /\ [](cb_peak < FailureThreshold => cb_state = CLOSED)

\* a success has just interrupted a run one short of the threshold
C9_Witness ==
  /\ cb_ev = [op |-> "success", pre |-> CLOSED]
  /\ cb_state = CLOSED /\ cb_failure_count = 0
  /\ cb_peak = FailureThreshold - 1
  /\ \E p \in Procs : cb_pc[p] = "running"

(* ------------------------------- C10 ---------------------------------- *)
\* an invocation failed: it raised an Exception or returned a retryable status
Failed(o) ==
  \/ o[1] \in {"exception", "CircuitBreakerError"}
  \/ (o[1] = "status" /\ o[2] \in RetryOnStatus)

\* C10: func is never invoked more than max_retries+1 times; it is not
\* invoked again after an invocation that did not fail; and when every
\* invocation has failed, execute ends only after exactly max_retries+1
\* invocations, raising the failure of the last one.
C10_RetryBudget ==
  /\ Len(rt_outcomes) <= rt_max_retries + 1
  /\ \A i \in 1..(Len(rt_outcomes) - 1) : Failed(rt_outcomes[i])
  /\ (rt_pc \in {"returned", "raised"}
        /\ \A i \in 1..Len(rt_outcomes) : Failed(rt_outcomes[i])) =>
       /\ rt_pc = "raised"
       /\ Len(rt_outcomes) = rt_max_retries + 1
       /\ rt_result = Raised(rt_outcomes[Len(rt_outcomes)], rt_max_retries)

\* every attempt of an execute with the largest budget has failed, by an
\* exception and by a retryable status, and the last failure was raised
C10_Witness ==
  /\ rt_pc = "raised"
  /\ rt_max_retries = MaxRetries
  /\ Len(rt_outcomes) = MaxRetries + 1
  /\ \A i \in 1..Len(rt_outcomes) : Failed(rt_outcomes[i])
  /\ rt_outcomes[1] = <<"exception", 0>>
  /\ rt_result = <<"HTTPStatusError", 503, MaxRetries>>

(* ------------------------------- C11 ---------------------------------- *)
\* the outcome of the latest invocation of func in this execute
LastOutcome == rt_outcomes[Len(rt_outcomes)]

\* C11: execute returns a value only when the invocation that produced it did
\* not raise and its status code, if it has one, is not in retry_on_status,
\* and the value returned is that invocation's result; a result with a
\* retryable status code on the final attempt ends execute with a raised
\* HTTPStatusError, never with a return.
C11_NoDegradedSuccess ==
  /\ rt_pc = "returned" =>
       /\ Len(rt_outcomes) >= 1
       /\ LastOutcome[1] \in {"value", "status"}
       /\ LastOutcome[1] = "status" => LastOutcome[2] \notin RetryOnStatus
       /\ rt_result = <<LastOutcome[1], LastOutcome[2], rt_attempt>>
  /\ (/\ rt_pc \in {"returned", "raised"}
      /\ Len(rt_outcomes) = rt_max_retries + 1
      /\ LastOutcome[1] = "status" /\ LastOutcome[2] \in RetryOnStatus) =>
       /\ rt_pc = "raised"
       /\ rt_result = <<"HTTPStatusError", LastOutcome[2], rt_max_retries>>

\* after a first attempt that raised, the final attempt of an execute with one
\* retry got a result with status 429, and execute raised
C11_Witness ==
  /\ rt_pc = "raised"
  /\ rt_max_retries = 1
  /\ rt_outcomes = << <<"exception", 0>>, <<"status", 429>> >>
  /\ rt_result = <<"HTTPStatusError", 429, 1>>

(* ------------------------------- C12 ---------------------------------- *)
\* C12: when an invocation of func (a CircuitBreaker.call) is rejected with
\* CircuitBreakerError, execute raises that error at once: the rejected
\* invocation is the last one of the execute, and no delay is slept after it
\* (the delays slept are those of the attempts before it).
C12_BreakerOpenSurfaced ==
  \A i \in 1..Len(rt_outcomes) :
    rt_outcomes[i][1] = "CircuitBreakerError" =>
      /\ i = Len(rt_outcomes)
      /\ Len(rt_delays) < i
      /\ rt_pc = "raised"
      /\ rt_result = <<"CircuitBreakerError", 0, i - 1>>

(* ------------------------------- C13 ---------------------------------- *)
\* C13: whatever set, get, delete, clear and cleanup_expired operations an
\* LRUCache with max_size >= 1 has gone through, it stores at most max_size
\* entries (each under a key of its own) whenever no operation is running,
\* in particular when a set has returned.
C13_SizeBound ==
  lc_ev.op # "new" =>
    /\ lc_max_size >= 1
    /\ Len(lc_cache) <= lc_max_size
    /\ Cardinality(StoredKeys(lc_cache)) = Len(lc_cache)

\* a set into a full cache of capacity 2 has just returned, having evicted
C13_Witness ==
  /\ lc_ev.op = "set" /\ lc_ev.evicted # {}
  /\ lc_max_size = 2
  /\ Len(lc_cache) = lc_max_size

(* ------------------------------- C14 ---------------------------------- *)
\* C14: a set of a key that is not stored into a cache that is full removes
\* exactly one entry, the one whose last get-hit or set is the oldest among
\* the stored entries, and stores the new key; any other set removes nothing.
C14_EvictsLeastRecentlyUsed ==
  [][lc_ev'.op = "set" =>
       IF lc_ev'.key \notin StoredKeys(lc_cache)
            /\ Len(lc_cache) >= lc_max_size
         THEN StoredKeys(lc_cache') =
                (StoredKeys(lc_cache) \ {Head(lc_touch)}) \cup {lc_ev'.key}
         ELSE StoredKeys(lc_cache') =
                StoredKeys(lc_cache) \cup {lc_ev'.key}]_vars

\* in a cache of capacity 2 the entry set first was hit by a get after the
\* second one was set, and the set of a third key has just evicted the second
C14_Witness ==
  /\ lc_ev.op = "set" /\ lc_ev.key = "k3" /\ lc_ev.evicted = {"k2"}
  /\ lc_max_size = 2 /\ Len(lc_cache) = 2
  /\ lc_cache[1].key = "k1" /\ lc_cache[1].hits = 1
  /\ lc_cache[2].key = "k3"

(* ------------------------------- C15 ---------------------------------- *)
\* the entry stored under key k
EntryOf(c, k) == c[Index(c, k)]

\* C15: get(key) returns None and changes nothing when the key is not stored;
\* returns None and removes the entry (and no other) when the entry's ttl is
\* positive and more than ttl has passed since it was set; and otherwise, in
\* particular for every entry with ttl <= 0, returns the stored value and
\* makes the entry the most recently used one with its hit counter one
\* higher, the other entries keeping their order.
C15_GetSemantics ==
  [][lc_ev'.op = "get" =>
       LET k == lc_ev'.key IN
       IF ~Stored(lc_cache, k)
         THEN lc_ev'.ret = None /\ lc_cache' = lc_cache
       ELSE IF EntryOf(lc_cache, k).ttl > 0
                 /\ EntryOf(lc_cache, k).age > EntryOf(lc_cache, k).ttl
         THEN /\ lc_ev'.ret = None
              /\ lc_cache' = SelectSeq(lc_cache, LAMBDA e : e.key # k)
         ELSE /\ lc_ev'.ret = EntryOf(lc_cache, k).value
              /\ lc_cache' =
                   Append(SelectSeq(lc_cache, LAMBDA e : e.key # k),
                          [EntryOf(lc_cache, k) EXCEPT
                             !.hits = EntryOf(lc_cache, k).hits + 1])]_vars

\* an entry with ttl <= 0, set some time ago, has just been returned by its
\* second get and stands behind an entry that was set after it
C15_Witness ==
  /\ lc_ev.op = "get" /\ lc_ev.ret \in Values
  /\ Len(lc_cache) = 2
  /\ lc_cache[2].key = lc_ev.key
  /\ lc_cache[2].ttl <= 0 /\ lc_cache[2].age > 0
  /\ lc_cache[2].hits = 2
  /\ lc_cache[1].age = 0

(* ------------------------------- C16 ---------------------------------- *)
\* key k is absent from L1: not stored, or stored with its TTL elapsed
L1Absent(k) ==
  Stored(lc_cache, k) =>
    (EntryOf(lc_cache, k).ttl > 0
      /\ EntryOf(lc_cache, k).age > EntryOf(lc_cache, k).ttl)

\* L1 stores value v under key k
L1Holds(c, k, v) == Stored(c, k) /\ EntryOf(c, k).value = v

\* the positions of access a in the trace of tier accesses tr
Positions(tr, a) == {i \in 1..Len(tr) : tr[i] = a}

\* C16: a TieredCache.get of a key that is absent from L1 and that the given
\* L2 store holds returns the value L2 holds and stores it in L1; and a get
\* that follows such a get for the same key reads L1 only.
C16_L2HitPromoted ==
  [][tc_ev'.op = "get" =>
       LET k == tc_ev'.key IN
       /\ (L1Absent(k) /\ tc_l2.present /\ Held(tc_l2, k) # None) =>
            /\ tc_ev'.ret = Held(tc_l2, k)
            /\ L1Holds(lc_cache', k, Held(tc_l2, k))
       /\ (tc_ev.op = "get" /\ tc_ev.key = k
             /\ Positions(tc_ev.trace, "l2.get") # {} /\ tc_ev.ret # None) =>
            tc_ev'.trace = <<"l1.get">>]_vars

(* ------------------------------- C17 ---------------------------------- *)
\* C17: when TieredCache.set(key, value, ttl) has returned, L1 and each given
\* L2 and L3 store hold value under key.
C17_WriteThrough ==
  tc_ev.op = "set" =>
    /\ L1Holds(lc_cache, tc_ev.key, tc_ev.value)
    /\ tc_l2.present => Held(tc_l2, tc_ev.key) = tc_ev.value
    /\ tc_l3.present => Held(tc_l3, tc_ev.key) = tc_ev.value

(* ------------------------------- C18 ---------------------------------- *)
\* C18: a TieredCache.get of a key that is absent from L1 and from L2 and that
\* the given L3 store holds returns the value L3 holds, writes it to L2 (when
\* given) and then to L1; and no get reads L3 before it has read L1 and,
\* when given, L2.
C18_L3HitPromoted ==
  [][tc_ev'.op = "get" =>
       LET k == tc_ev'.key
           tr == tc_ev'.trace
       IN
       /\ (L1Absent(k) /\ Held(tc_l2, k) = None
             /\ tc_l3.present /\ Held(tc_l3, k) # None) =>
            /\ tc_ev'.ret = Held(tc_l3, k)
            /\ L1Holds(lc_cache', k, Held(tc_l3, k))
            /\ tc_l2.present =>
                 /\ Held(tc_l2', k) = Held(tc_l3, k)
                 /\ \A i \in Positions(tr, "l2.set"), j \in Positions(tr, "l1.set") :
                      i < j
       /\ \A i \in Positions(tr, "l3.get") :
            /\ \E j \in Positions(tr, "l1.get") : j < i
            /\ tc_l2.present => \E j \in Positions(tr, "l2.get") : j < i]_vars

(* ------------------------------- C19 ---------------------------------- *)
\* C19: a proxy's health becomes FAILED only in a record_failure for that
\* proxy which raises its failure_count by one to max_failures or above; and
\* a proxy that is FAILED stays FAILED in every step, those of the
\* record_success and record_failure calls of health-check probes included.
C19_FailedIsSticky ==
  [][\A p \in Pool :
       /\ (pm_proxies[p].health # FAILED /\ pm_proxies'[p].health = FAILED) =>
            /\ pm_ev'.op = "record_failure" /\ pm_ev'.proxy = p
            /\ pm_proxies'[p].failure_count = pm_proxies[p].failure_count + 1
            /\ pm_proxies'[p].failure_count >= pm_max_failures
       /\ pm_proxies[p].health = FAILED => pm_proxies'[p].health = FAILED]_vars

\* a proxy that failed max_failures = 2 times in a row has just passed a
\* health check (which set its average response time to 10 s) and is still
\* FAILED
C19_Witness ==
  /\ pm_ev.op = "record_success" /\ pm_ev.probe
  /\ pm_ev.proxy \in Pool
  /\ pm_max_failures = 2
  /\ pm_proxies[pm_ev.proxy] =
       [health |-> FAILED, success_count |-> 1, failure_count |-> 2,
        total_requests |-> 3, avg_response_time |-> 10 * AvgUnit]

(* ------------------------------- C20 ---------------------------------- *)
\* C20: under each rotation strategy, get_proxy returns None exactly when
\* the pool is empty or all its proxies are FAILED, and otherwise returns a
\* proxy of the pool that is not FAILED and whose failure_count is below
\* max_failures.
C20_NeverSelectsFailed ==
  pm_ev.op = "get_proxy" =>
    /\ pm_ev.ret = NoProxy <=> \A p \in Pool : pm_proxies[p].health = FAILED
    /\ pm_ev.ret # NoProxy =>
         /\ pm_ev.ret \in Pool
         /\ pm_proxies[pm_ev.ret].health # FAILED
         /\ pm_proxies[pm_ev.ret].failure_count < pm_max_failures

\* round robin is about to select the first proxy of the pool, which has
\* reached max_failures, and get_proxy has returned the second one
C20_Witness ==
  /\ pm_ev.op = "get_proxy" /\ pm_ev.ret = 2
  /\ pm_strategy = "round_robin" /\ pm_index = 1
  /\ pm_proxies[1].health = FAILED
  /\ pm_proxies[1].failure_count = pm_max_failures
  /\ pm_proxies[2].health = DEGRADED

(* ------------------------------- C21 ---------------------------------- *)
\* C21: a record_failure for a proxy of the pool that leaves failure_count
\* below max_failures makes the proxy DEGRADED when, with the failure counted,
\* success_count / total_requests < 0.5, and leaves its health as it was
\* otherwise; a record_success for a DEGRADED proxy makes it HEALTHY, whatever
\* its success rate then is.
C21_DegradeAndRecover ==
  [][\A p \in Pool :
       /\ (pm_ev'.op = "record_failure" /\ pm_ev'.proxy = p
             /\ pm_proxies'[p].failure_count < pm_max_failures) =>
            pm_proxies'[p].health =
              IF 2 * pm_proxies'[p].success_count < pm_proxies'[p].total_requests
                THEN DEGRADED
                ELSE pm_proxies[p].health
       /\ (pm_ev'.op = "record_success" /\ pm_ev'.proxy = p
             /\ pm_proxies[p].health = DEGRADED) =>
            pm_proxies'[p].health = HEALTHY]_vars

\* a proxy with two failures, short of max_failures = 3, has just recorded its
\* first success: it is HEALTHY with a success rate of one third
C21_Witness ==
  /\ pm_ev.op = "record_success" /\ pm_ev.proxy \in Pool
  /\ pm_max_failures = 3
  /\ pm_proxies[pm_ev.proxy].health = HEALTHY
  /\ pm_proxies[pm_ev.proxy].success_count = 1
  /\ pm_proxies[pm_ev.proxy].failure_count = 2

(* ------------------------------- C22 ---------------------------------- *)
\* C22: a probe that fails or raises is recorded as a failure of its proxy
\* and changes neither the loop nor the other probes of the round; a round
\* ends only when every proxy of the pool has been probed and recorded, and
\* the loop then sleeps again; a loop ends only once it was cancelled; and a
\* loop that is not cancelled finishes the round it is in and, after each
\* sleep, starts a further round.
C22_ProbeFailureContained ==
  /\ [][\A t \in Tasks :
         /\ (hc_ev'.op = "probe" /\ hc_ev'.task = t /\ hc_ev'.outcome # "passed") =>
              /\ hc_loops'[t] = hc_loops[t]
              /\ hc_loops'[t].st = "check"
              /\ \A p \in Pool :
                   IF p = hc_ev'.proxy
                     THEN /\ hc_probes'[t][p] = "recorded"
                          /\ pm_proxies'[p].failure_count =
                               pm_proxies[p].failure_count + 1
                     ELSE /\ hc_probes'[t][p] = hc_probes[t][p]
                          /\ hc_probes'[t][p] \in {"running", "recorded"}
         /\ (hc_ev'.op = "round_end" /\ hc_ev'.task = t) =>
              /\ \A p \in Pool : hc_probes[t][p] = "recorded"
              /\ hc_loops'[t].st = "sleep"
         /\ (hc_loops[t].st # "done" /\ hc_loops'[t].st = "done") =>
              hc_loops[t].cancel]_vars
  /\ \A t \in Tasks :
       /\ (hc_loops[t].st = "check") ~>
            (hc_loops[t].st = "sleep" \/ hc_loops[t].cancel)
       /\ \A n \in 0..(MaxRounds - 1) :
            (hc_loops[t].st = "sleep" /\ hc_rounds = n) ~>
              (hc_rounds > n \/ hc_loops[t].cancel)

\* a second round is running after a probe of the first round failed for one
\* proxy of two and the other proxy was recorded as well
C22_Witness ==
  /\ pm_pool = 2
  /\ hc_rounds = 2
  /\ \E t \in Tasks : hc_loops[t].st = "check" /\ ~hc_loops[t].cancel
  /\ pm_proxies[1].failure_count = 1 /\ pm_proxies[1].total_requests = 1
  /\ pm_proxies[2].success_count = 1 /\ pm_proxies[2].total_requests = 1

(* ------------------------------- C23 ---------------------------------- *)
\* C23: however start_health_checks and stop_health_checks calls interleave,
\* at most one health-check loop task is alive at a time; and when a
\* stop_health_checks has just returned, the task it awaited is done with no
\* probe of it running, and self._health_check_task is None, so that a later
\* start creates a new loop.
C23_SingleLoopTask ==
  /\ Cardinality({t \in Tasks : Live(t)}) <= 1
  /\ \A t \in Tasks : hc_loops[t].st = "done" => Finished(t)
  /\ hc_ev.op = "stop_return" =>
       /\ hc_task = NoTask
       /\ hc_ev.task # NoTask =>
            hc_loops[hc_ev.task].st = "done" /\ Finished(hc_ev.task)

(* ------------------------------- C24 ---------------------------------- *)
\* C24: the header set that generate(url, custom_headers) returns gives every
\* caller-supplied header the caller's value, and whenever the caller
\* supplied no Referer (no overrides at all included) it holds a Referer
\* equal to the origin scheme://host/ of the URL.
C24_OverridesAndReferer ==
  hg_ev.op = "generate" =>
    /\ \A k \in DOMAIN hg_ev.custom.dict :
         k \in DOMAIN hg_ev.headers /\ hg_ev.headers[k] = hg_ev.custom.dict[k]
    /\ "Referer" \notin DOMAIN hg_ev.custom.dict =>
         /\ "Referer" \in DOMAIN hg_ev.headers
         /\ hg_ev.headers["Referer"] = Origin(hg_ev.url)

(* ------------------------------- C25 ---------------------------------- *)
\* C25: for every domain at most one RateLimiter is ever created, and it
\* exists as soon as an acquire for the domain has been called, concurrent
\* first acquires included; and a step of an acquire for domain A leaves the
\* bucket of every other domain B (tokens, last update, lock, waiters) and
\* the sleeps of the callers waiting on B unchanged.
C25_OneBucketPerKey ==
  /\ [][/\ \A d \in Domains :
             /\ dl_limiters'[d].made <= 1
             /\ dl_limiters[d].made = 1 => dl_limiters'[d].made = 1
             /\ (\E p \in Procs : dl_dom'[p] = d) => dl_limiters'[d].made = 1
        /\ dl_ev'.proc # NoProc =>
             \A d \in Domains \ {dl_ev'.domain} :
               /\ dl_limiters'[d] = dl_limiters[d]
               /\ \A p \in Procs :
                    dl_dom[p] = d =>
                      /\ dl_sleep'[p] = dl_sleep[p]
                      /\ dl_pc'[p] = dl_pc[p]]_vars

\* two callers made the first acquires for domain a together, one holding
\* the bucket's lock and the other queued for it, while b has a bucket too
C25_Witness ==
  /\ \A p \in {1, 2} : dl_dom[p] = "a"
  /\ dl_pc[1] = "run" /\ dl_pc[2] = "lock"
  /\ dl_limiters["a"].made = 1 /\ dl_limiters["a"].tokens = BurstUnits
  /\ dl_limiters["b"].made = 1 /\ dl_limiters["b"].tokens < BurstUnits

(* ------------------------------- C26 ---------------------------------- *)
\* r + s of two fractions
Plus(r, s) == Frac(r[1] * s[2] + s[1] * r[2], r[2] * s[2])

Allowed(request, name) ==
  IF request.headers.given /\ name \in DOMAIN request.headers.dict
    THEN <<request.headers.dict[name]>>
    ELSE <<>>

\* C27: two _make_key calls whose requests agree in url, method, body and the
\* allow-listed headers Accept, Accept-Language and User-Agent return the
\* same key, whatever other headers the requests carry; and two calls whose
\* requests differ in the body only return different keys.
C27_KeyOfFourComponents ==
  (mk_last.made /\ mk_prev.made) =>
    LET r == mk_last.request
        s == mk_prev.request
        sameAllowed ==
          \A name \in {"Accept", "Accept-Language", "User-Agent"} :
            Allowed(r, name) = Allowed(s, name)
    IN  /\ (r.url = s.url /\ r.method = s.method /\ r.body = s.body
              /\ sameAllowed) => mk_last.key = mk_prev.key
        /\ (r.url = s.url /\ r.method = s.method /\ r.headers = s.headers
              /\ r.body # s.body) => mk_last.key # mk_prev.key

\* the same key for a request with Accept and X-Trace and one with the same
\* Accept alone
C27_Witness ==
  /\ mk_last.made /\ mk_prev.made
  /\ mk_last.key = mk_prev.key
  /\ mk_last.request.body = <<"null">>
  /\ DOMAIN mk_last.request.headers.dict = {"Accept", "X-Trace"}
  /\ mk_prev.request.headers.given
  /\ DOMAIN mk_prev.request.headers.dict = {"Accept"}

(* ------------------------------- C28 ---------------------------------- *)
\* the task waits for a lock that another task holds
WaitsFor(p, q) ==
  /\ lk_todo[p] # <<>>
  /\ Head(lk_todo[p]).e = "enter"
  /\ lk_owner[Head(lk_todo[p]).lock] = q

\* C28: no task is ever inside the "async with" of two locks, and there is
\* never a set of tasks each of which waits for a lock that a task of the set
\* holds.
C28_OneLockAtATime ==
  /\ \A p \in Procs : Cardinality(Holds(p)) <= 1
  /\ \A waiting \in SUBSET Procs \ {{}} :
       ~ \A p \in waiting : \E q \in waiting : WaitsFor(p, q)

\* a task waits for the breaker's lock while another is inside it, and the
\* one inside has a bucket's acquire ahead (the task holding that bucket's
\* lock elsewhere would be the other half of a cycle)
C28_Witness ==
  /\ WaitsFor(1, 2)
  /\ Holds(2) = {"CircuitBreaker"}
  /\ Len(lk_todo[2]) > 3
  /\ lk_todo[2][2].e = "enter" /\ lk_todo[2][2].lock = "RateLimiter"

(* ------------------------------- C29 ---------------------------------- *)
\* C29: whatever the interleaving of concurrent calls, every step that
\* changes the breaker's state goes from Closed to Open, from Open to
\* HalfOpen, from HalfOpen to Open or from HalfOpen to Closed.
C29_StateEdges ==
  [][cb_state' # cb_state =>
       <<cb_state, cb_state'>> \in
         {<<CLOSED, OPEN>>, <<OPEN, HALF_OPEN>>, <<HALF_OPEN, OPEN>>,
          <<HALF_OPEN, CLOSED>>}]_vars

\* a call admitted before the breaker opened has just recorded its success
\* in the Open breaker, which stays Open
C29_Witness ==
  /\ cb_ev.op = "success" /\ cb_ev.pre = OPEN
  /\ cb_state = OPEN
  /\ cb_failure_count = 0

(* ------------------------------- C30 ---------------------------------- *)
\* the sum of the first n members of a sequence of numbers
RECURSIVE SumOf(_, _)
SumOf(q, n) == IF n = 0 THEN 0 ELSE q[n] + SumOf(q, n - 1)

\* min(max_delay, base_delay * exponential_base^i), in 1/10 units
Backoff(i) == 10 * Min(MaxDelay, BaseDelay * Power(ExpBase, i))

\* C30: the i-th sleep of an execute (i = 0..max_retries-1) follows the failed
\* attempt i and lasts min(max_delay, base_delay * exponential_base^i), plus
\* a jitter of at most a tenth of that when jitter is enabled; there are at
\* most max_retries sleeps and none after the final attempt; with jitter
\* disabled no sleep exceeds max_delay, and an execute whose attempts all
\* failed has slept the sum of those delays.
C30_BackoffDelays ==
  /\ Len(rt_delays) <= rt_max_retries
  /\ Len(rt_delays) <= Len(rt_outcomes)
  /\ rt_pc \in {"returned", "raised"} => Len(rt_delays) = Len(rt_outcomes) - 1
  /\ \A i \in 1..Len(rt_delays) :
       /\ rt_outcomes[i][1] \in {"exception", "CircuitBreakerError", "status"}
       /\ rt_delays[i] >= Backoff(i - 1)
       /\ rt_delays[i] <= Backoff(i - 1)
                            + (IF rt_jitter THEN Backoff(i - 1) \div 10 ELSE 0)
       /\ ~rt_jitter => rt_delays[i] <= 10 * MaxDelay
  /\ (rt_pc = "raised" /\ Len(rt_outcomes) = rt_max_retries + 1 /\ ~rt_jitter) =>
       SumOf(rt_delays, Len(rt_delays)) =
         SumOf([i \in 1..rt_max_retries |-> Backoff(i - 1)], rt_max_retries)

\* an execute without jitter has failed all its four attempts, the third
\* sleep having been cut to max_delay
C30_Witness ==
  /\ rt_pc = "raised"
  /\ ~rt_jitter
  /\ rt_max_retries = 3
  /\ Len(rt_outcomes) = 4
  /\ Len(rt_delays) = 3
  /\ rt_delays[3] = 10 * MaxDelay
  /\ BaseDelay * Power(ExpBase, 2) > MaxDelay


\* C31: with the round-robin strategy, once as many consecutive get_proxy
\* calls as there are eligible proxies have been made while the set of
\* eligible (non-FAILED) proxies stayed the same, these calls have returned
\* every eligible proxy exactly once, each call the proxy at the position
\* "call counter modulo n" of the eligible proxies in pool order, so the
\* proxies come in pool order, wrapping round.
C31_RoundRobinOrder ==
  LET healthy == Eligible(pm_proxies)
      n == Len(healthy)
  IN  (pm_strategy = "round_robin" /\ n > 0 /\ Len(rr_served) = n)
        => /\ \A i \in SeqRange(healthy) :
                Cardinality({j \in 1..n : rr_served[j] = i}) = 1
           /\ \A j \in 1..n :
                rr_served[j] = healthy[((pm_index + j - 1) % n) + 1]

\* three calls on the whole pool starting at the second proxy, and two
\* calls on the first and the third proxy when the second has failed
C31_Witness ==
  /\ pm_strategy = "round_robin"
  /\ pm_ev.op = "get_proxy"
  /\ \/ rr_served = <<2, 3, 1>>
     \/ /\ Eligible(pm_proxies) = <<1, 3>>
        /\ rr_served = <<3, 1>>

C33_AverageOnlyOnSuccess ==
  [][pm_ev'.op # "init" =>
       \A i \in Pool :
         IF pm_ev'.op = "record_success" /\ pm_ev'.proxy = i
           THEN \E time \in ResponseTimes :
                  5 * pm_proxies'[i].avg_response_time
                    = time * AvgUnit + 4 * pm_proxies[i].avg_response_time
           ELSE pm_proxies'[i].avg_response_time
                  = pm_proxies[i].avg_response_time
  ]_vars

\* record_failure has just returned for a proxy whose average, after two
\* responses of 50 s, is 0.2 * 50 + 0.8 * (0.2 * 50) = 18 s
C33_Witness ==
  /\ pm_ev.op = "record_failure"
  /\ pm_ev.proxy \in Pool
  /\ pm_proxies[pm_ev.proxy].success_count = 2
  /\ pm_proxies[pm_ev.proxy].avg_response_time = 18 * AvgUnit

\* acquire of caller q was issued when an acquire for more than burst tokens
\* was holding the lock or queued for it, or is itself such an acquire
Stalled(q) ==
  /\ rl_pc[q] # "idle"
  /\ \E p \in Before(q) : rl_req[p] > Burst

\* C34: a caller sleeping inside acquire holds the bucket's lock, and nobody
\* else runs in acquire meanwhile; an acquire(n) with n > burst never
\* returns; and an acquire issued while such an acquire is pending is queued
\* behind it and never returns either, however full the bucket is.
C34_OversizedAcquireStalls ==
  /\ [](\A p \in Procs :
          rl_pc[p] \in {"run", "sleep"} =>
            /\ rl_owner = p
            /\ \A q \in Procs \ {p} : rl_pc[q] \in {"idle", "lock"})
  /\ [][\A q \in Procs :
          /\ Stalled(q) => Stalled(q)'
          /\ (rl_pc[q] = "idle" /\ rl_pc'[q] # "idle"
                /\ \E p \in Procs \ {q} : rl_pc[p] # "idle" /\ rl_req[p] > Burst)
               => Stalled(q)'
          /\ (rl_pc[q] # "idle" /\ rl_pc'[q] = "idle") =>
               \A p \in Before(q) : rl_req[p] <= Burst]_vars

\* a caller asking for more than burst tokens sleeps again with the lock,
\* the bucket is full, and a caller asking for one token is queued behind it
C34_Witness ==
  \E p, q \in Procs :
    /\ rl_pc[p] = "sleep" /\ rl_req[p] > Burst /\ rl_owner = p
    /\ rl_tokens = BurstUnits
    /\ rl_pc[q] = "lock" /\ rl_req[q] = 1

\* bucket b is a RateLimiter as its constructor leaves it: burst 1 and one
\* full token
Fresh(b) == b.burst = 1 /\ b.tokens = b.burst * b.rate[2] /\ b.elapsed = 0

\* C35: every on_rate_limit and on_error, also one that leaves the rate at
\* min_rate, and every on_success that changes the rate puts a new bucket
\* with burst 1 and one full token in place of the limiter's bucket; an
\* on_success that leaves the rate as it is leaves the bucket, its tokens
\* included, as it is; and an acquire that follows a replacement returns
\* without sleeping and takes the new bucket's token, however few tokens the
\* replaced bucket held.
C35_ReplacedBucketIsFull ==
  [][/\ al_ev'.op \in {"on_rate_limit", "on_error"} =>
          /\ al_limiter'.made = al_limiter.made + 1
          /\ Fresh(al_limiter') /\ al_limiter'.rate = al_current_rate'
     /\ al_ev'.op = "on_success" =>
          IF al_current_rate' # al_current_rate
            THEN /\ al_limiter'.made = al_limiter.made + 1
                 /\ Fresh(al_limiter') /\ al_limiter'.rate = al_current_rate'
            ELSE al_limiter' = al_limiter
     /\ (al_ev.replaced /\ al_ev'.op = "acquire") =>
          /\ ~al_ev'.waited /\ al_acq'.pc = "idle"
          /\ al_limiter'.made = al_limiter.made
          /\ al_limiter'.tokens = 0
  ]_vars

\* on_rate_limit at min_rate has left the rate as it was and has replaced a
\* bucket that was short of a token; the caller of acquire is idle
C35_Witness ==
  /\ al_ev.op = "on_rate_limit" /\ al_ev.short
  /\ al_ev.old_rate = al_min_rate /\ al_current_rate = al_min_rate
  /\ al_limiter.tokens = al_limiter.rate[2]
  /\ al_acq.pc = "idle"

\* C36: a call rejected because the breaker is Open changes neither the
\* state nor the failure count, the success count or the time of the last
\* failure, so the time that has passed since the last failure, which
\* decides when the breaker may go HalfOpen, is what it was before the call.
C36_RejectionChangesNothing ==
  [][cb_ev'.op = "reject" =>
       /\ cb_state = OPEN /\ cb_state' = OPEN
       /\ cb_failure_count' = cb_failure_count
       /\ cb_success_count' = cb_success_count
       /\ cb_since' = cb_since
       /\ cb_pc' = cb_pc]_vars

\* a call was just rejected one tick before the recovery timeout, the clock
\* having advanced since the failure that opened the breaker
C36_Witness ==
  /\ cb_ev = [op |-> "reject", pre |-> OPEN]
  /\ cb_since = RecoveryTimeout - 1
  /\ cb_failure_count >= FailureThreshold

\* C37: when func ends with an exception that expected_exception does not
\* cover, such as a cancellation, the call records nothing: the state, both
\* counters and the time of the last failure are what they were before the
\* exception, in Closed, Open and HalfOpen alike, and the call is over.
C37_UnexpectedExceptionUnrecorded ==
  [][\A p \in Procs :
       (cb_ev'.op = "other" /\ cb_pc[p] = "running" /\ cb_pc'[p] = "idle") =>
         /\ cb_state' = cb_state
         /\ cb_failure_count' = cb_failure_count
         /\ cb_success_count' = cb_success_count
         /\ cb_since' = cb_since]_vars

\* the call admitted as the probe of a HalfOpen breaker has just ended with
\* such an exception, and the breaker is still HalfOpen
C37_Witness ==
  /\ cb_ev = [op |-> "other", pre |-> HALF_OPEN]
  /\ cb_state = HALF_OPEN
  /\ \A p \in Procs : cb_pc[p] = "idle"

\* C38: a Closed breaker has a success count of 0 and a failure count below
\* failure_threshold, and in no state is the success count above 1.
C38_ClosedCounters ==
  /\ cb_state = CLOSED =>
       cb_success_count = 0 /\ cb_failure_count < FailureThreshold
  /\ cb_success_count <= 1

\* the breaker has just closed on a success recorded in HalfOpen
C38_Witness ==
  /\ cb_ev = [op |-> "success", pre |-> HALF_OPEN]
  /\ cb_state = CLOSED
  /\ cb_success_count = 0 /\ cb_failure_count = 0

\* C39: for every proxy of the pool, in every reachable state,
\* total_requests = success_count + failure_count, and its health is FAILED
\* exactly when its failure_count has reached max_failures; and no step
\* makes success_count, failure_count or total_requests smaller.
C39_CountersAddUp ==
  /\ [](\A p \in Pool :
          /\ pm_proxies[p].total_requests
               = pm_proxies[p].success_count + pm_proxies[p].failure_count
          /\ pm_proxies[p].health = FAILED
               <=> pm_proxies[p].failure_count >= pm_max_failures)
  /\ [][\A p \in Pool :
          /\ pm_proxies'[p].success_count >= pm_proxies[p].success_count
          /\ pm_proxies'[p].failure_count >= pm_proxies[p].failure_count
          /\ pm_proxies'[p].total_requests >= pm_proxies[p].total_requests]_vars

\* a proxy that reached max_failures = 2 and then recorded a success and one
\* more failure: four requests in all, and FAILED
C39_Witness ==
  /\ pm_max_failures = 2
  /\ \E p \in Pool :
       /\ pm_proxies[p].success_count = 1
       /\ pm_proxies[p].failure_count = 3
       /\ pm_proxies[p].total_requests = 4
       /\ pm_proxies[p].health = FAILED

\* C40: a record_success or record_failure for a URL that is not in the
\* pool creates no record and changes no record of the pool, so health,
\* counters, average response time and score of every proxy are unchanged,
\* and so are the rotation counter and the configuration.
C40_UnknownUrlIgnored ==
  [][(pm_ev'.op \in {"record_success", "record_failure"}
        /\ pm_ev'.proxy \notin Pool) =>
       /\ DOMAIN pm_proxies' = Pool
       /\ pm_proxies' = pm_proxies
       /\ \A p \in Pool : Score(pm_proxies'[p]) = Score(pm_proxies[p])
       /\ UNCHANGED <<pm_pool, pm_strategy, pm_max_failures, pm_index>>]_vars

\* record_failure has just returned for a URL outside a pool of two, one of
\* them DEGRADED and the other FAILED
C40_Witness ==
  /\ pm_ev.op = "record_failure" /\ pm_ev.proxy \notin Pool
  /\ pm_pool = 2
  /\ {pm_proxies[1].health, pm_proxies[2].health} = {DEGRADED, FAILED}
====
